---- MODULE Spec2Model ----
(***************************************************************************)
(* Price discovery engine of backend/inquirer.py together with the penalty *)
(* tracker of backend/utils/mixins/penalizable_oracle.py.                  *)
(*                                                                         *)
(* Prices are decimals in the source; here a price is an integer number of *)
(* hundredths, so ONE is 100 and the KFEE price 0.01 is 1.  Time is the    *)
(* value of ts_now(), in seconds.  An Optional value is a sequence of      *)
(* length 0 (None) or 1.                                                   *)
(***************************************************************************)
EXTENDS Integers, Sequences, FiniteSets, TLC

VARIABLES now, order_set, oracles, oracles_not_onchain, oracle_instances,
          oracle_instances_not_onchain, cached_current_price,
          penalty_info, provider, hist, price_historian, price_history, calls, last

vars == <<now, order_set, oracles, oracles_not_onchain, oracle_instances,
          oracle_instances_not_onchain, cached_current_price,
          penalty_info, provider, hist, price_historian, price_history, calls, last>>

-----------------------------------------------------------------------------
(* Program constants *)

CURRENT_PRICE_CACHE_SECS == 300
DEFAULT_RATE_LIMIT_WAITING_TIME == 60
ORACLE_PENALTY_THRESHOLD_COUNT == 5
ORACLE_PENALTY_TS == 1800
ZERO_PRICE == 0
ONE == 100
KFEE_USD_PRICE == 1

(* Bounds of the model *)

StartTime == 2000
MaxUnitTicks == 1
MaxCacheTicks == 1
MaxPenaltyTicks == 1
MaxFailures == 7
SomePrice == 250
MaxInstances == 2

-----------------------------------------------------------------------------
(* Assets and oracles *)

A_USD == "USD"
A_BTC == "BTC"
A_BSQ == "BSQ"
A_KFEE == "KFEE"

Assets == {"USD", "EUR", "BTC", "BSQ", "KFEE", "NFT", "UNK", "CRV", "LPT", "TKN"}

\* what asset.resolve() / isinstance() tell about an asset
AssetKind(a) ==
    CASE a \in {"USD", "EUR"} -> "fiat"
      [] a \in {"BTC", "BSQ", "KFEE"} -> "crypto"
      [] a = "CRV" -> "evm_special"
      [] a = "LPT" -> "evm_protocol"
      [] a = "TKN" -> "evm_plain"
      [] a = "UNK" -> "unknown"
      [] OTHER -> "custom"

is_asset_with_oracles(a) == AssetKind(a) \in {"fiat", "crypto", "evm_special", "evm_protocol", "evm_plain"}

MANUALCURRENT == "manualcurrent"
COINGECKO == "coingecko"
CRYPTOCOMPARE == "cryptocompare"
UNISWAPV2 == "uniswapv2"
UNISWAPV3 == "uniswapv3"
BLOCKCHAIN == "blockchain"
FIAT == "fiat"

CurrentPriceOracleInstance == {COINGECKO, CRYPTOCOMPARE, UNISWAPV2, UNISWAPV3, MANUALCURRENT}

\* instances that are a CurrentPriceOracleInterface / a PenalizablePriceOracleMixin
CurrentPriceOracleInterface == CurrentPriceOracleInstance
PenalizablePriceOracleMixin == {COINGECKO, CRYPTOCOMPARE}

\* what the provider behind an oracle answers at the moment
Answer(p, u) == [kind |-> "price", price |-> p, used_main_currency |-> u]
RateLimited == [kind |-> "rate_limited", price |-> ZERO_PRICE, used_main_currency |-> FALSE]
RemoteError == [kind |-> "RemoteError", price |-> ZERO_PRICE, used_main_currency |-> FALSE]
PriceQueryUnsupportedAsset == [kind |-> "PriceQueryUnsupportedAsset", price |-> ZERO_PRICE, used_main_currency |-> FALSE]
DefiPoolError == [kind |-> "DefiPoolError", price |-> ZERO_PRICE, used_main_currency |-> FALSE]
RecursionError == [kind |-> "RecursionError", price |-> ZERO_PRICE, used_main_currency |-> FALSE]

Behaviours == {Answer(p, u) : p \in {ZERO_PRICE, SomePrice}, u \in BOOLEAN}
              \cup {RateLimited, RemoteError, PriceQueryUnsupportedAsset, DefiPoolError, RecursionError}

-----------------------------------------------------------------------------
(* Penalty tracker *)

PenaltyInfo(ts, n) == [last_penalized_ts |-> ts, query_failures_count |-> n]

note_failure_or_penalize_strict(pi, t) ==
    IF pi.query_failures_count > ORACLE_PENALTY_THRESHOLD_COUNT
      THEN PenaltyInfo(t, 0)
      ELSE PenaltyInfo(pi.last_penalized_ts, pi.query_failures_count + 1)

note_failure_or_penalize_early(pi, t) ==
    IF pi.query_failures_count >= ORACLE_PENALTY_THRESHOLD_COUNT - 1
      THEN PenaltyInfo(t, 0)
      ELSE PenaltyInfo(pi.last_penalized_ts, pi.query_failures_count + 1)

note_failure_or_penalize(pi, t) ==
    IF pi.query_failures_count >= ORACLE_PENALTY_THRESHOLD_COUNT
      THEN PenaltyInfo(t, 0)
      ELSE PenaltyInfo(pi.last_penalized_ts, pi.query_failures_count + 1)

is_penalized_any_failure(pi, t) ==
    LET after == IF pi.query_failures_count # 0
                   THEN PenaltyInfo(t, 0) ELSE pi
    IN  [info |-> after, result |-> t - after.last_penalized_ts <= ORACLE_PENALTY_TS]

is_penalized_exclusive(pi, t) ==
    LET after == IF pi.query_failures_count = ORACLE_PENALTY_THRESHOLD_COUNT
                   THEN note_failure_or_penalize(pi, t) ELSE pi
    IN  [info |-> after, result |-> t - after.last_penalized_ts < ORACLE_PENALTY_TS]

is_penalized_notes_every_check(pi, t) ==
    LET after == note_failure_or_penalize(pi, t)
    IN  [info |-> after, result |-> t - after.last_penalized_ts <= ORACLE_PENALTY_TS]

\* returns the mutated penalty info together with the method's result
is_penalized(pi, t) ==
    LET after == IF pi.query_failures_count = ORACLE_PENALTY_THRESHOLD_COUNT
                   THEN note_failure_or_penalize(pi, t) ELSE pi
    IN  [info |-> after, result |-> t - after.last_penalized_ts <= ORACLE_PENALTY_TS]

-----------------------------------------------------------------------------
(* Price cache *)

CachedPriceEntry(p, t, o, u) == [price |-> p, time |-> t, oracle |-> o, used_main_currency |-> u]

get_cached_current_price_entry_short_ttl(cache, t, cache_key, match_main_currency) ==
    IF \/ cache_key \notin DOMAIN cache
       \/ t - cache[cache_key].time >= CURRENT_PRICE_CACHE_SECS
       \/ cache[cache_key].used_main_currency # match_main_currency
      THEN <<>>
      ELSE <<cache[cache_key]>>

get_cached_current_price_entry_any_flag(cache, t, cache_key, match_main_currency) ==
    IF \/ cache_key \notin DOMAIN cache
       \/ t - cache[cache_key].time > CURRENT_PRICE_CACHE_SECS
      THEN <<>>
      ELSE <<cache[cache_key]>>

get_cached_current_price_entry(cache, t, cache_key, match_main_currency) ==
    IF \/ cache_key \notin DOMAIN cache
       \/ t - cache[cache_key].time > CURRENT_PRICE_CACHE_SECS
       \/ cache[cache_key].used_main_currency # match_main_currency
      THEN <<>>
      ELSE <<cache[cache_key]>>

Store_keeps_existing(cache, key, entry) ==
    IF key \in DOMAIN cache THEN cache
    ELSE [k \in DOMAIN cache \cup {key} |-> IF k = key THEN entry ELSE cache[k]]

\* dict item assignment: cache[key] = entry
Store(cache, key, entry) ==
    [k \in DOMAIN cache \cup {key} |-> IF k = key THEN entry ELSE cache[k]]

\* dict.pop(key, None) for every key of a set
Pop(cache, keys) == [k \in DOMAIN cache \ keys |-> cache[k]]

remove_cache_prices_for_asset_first_position(cache, pairs_to_invalidate) ==
    LET assets_to_invalidate == {p[1] : p \in pairs_to_invalidate} \cup {p[2] : p \in pairs_to_invalidate}
    IN  Pop(cache, {k \in DOMAIN cache : k[1] \in assets_to_invalidate})

remove_cache_prices_for_asset(cache, pairs_to_invalidate) ==
    LET assets_to_invalidate == {p[1] : p \in pairs_to_invalidate} \cup {p[2] : p \in pairs_to_invalidate}
    IN  Pop(cache, {k \in DOMAIN cache : k[1] \in assets_to_invalidate \/ k[2] \in assets_to_invalidate})

remove_cached_current_price_entry(cache, cache_key) == Pop(cache, {cache_key})

-----------------------------------------------------------------------------
(* Results of a call *)

Returned(p, o, u) == [outcome |-> "return", price |-> p, oracle |-> o, used_main_currency |-> u]
Raised(e) == [outcome |-> e, price |-> ZERO_PRICE, oracle |-> "none", used_main_currency |-> FALSE]

\* what a resolution call did: its result, the state it leaves, the oracles
\* it invoked in order, the warnings it sent, whether the cache answered
Effect(res, cache, pen, queried, warnings, hit) ==
    [res |-> res, cache |-> cache, pen |-> pen, queried |-> queried,
     warnings |-> warnings, hit |-> hit]

-----------------------------------------------------------------------------
(* Oracle registry *)

ValidOrder(ids) == Len(ids) # 0 /\ Len(ids) = Cardinality({ids[i] : i \in 1..Len(ids)})

IsOnchain_only_v2(o) == o \in {UNISWAPV2}

IsOnchain(o) == o \in {UNISWAPV2, UNISWAPV3}

NotOnchain(ids) == SelectSeq(ids, LAMBDA o : ~IsOnchain(o))

\* getattr(instance, f'_{oracle!s}'): the object held by the attribute of that name
OracleInstance(o) == [attribute |-> o]

\* the list comprehension of line 245
OracleInstances(ids) == [i \in 1..Len(ids) |-> OracleInstance(ids[i])]

\* zip() of two lists stops at the shorter one
Zip(xs, ys) ==
    [i \in 1..(IF Len(xs) < Len(ys) THEN Len(xs) ELSE Len(ys)) |-> <<xs[i], ys[i]>>]

InstancesNotOnchain_by_position(ids, instances) ==
    LET kept == SelectSeq(Zip(ids, instances), LAMBDA z : ~IsOnchain(z[1]))
    IN  [i \in 1..Len(kept) |-> instances[i]]

\* the second list the loop of lines 248-251 builds: the instance of every
\* zipped pair whose oracle id is not an on-chain one
InstancesNotOnchain(ids, instances) ==
    LET kept == SelectSeq(Zip(ids, instances), LAMBDA z : ~IsOnchain(z[1]))
    IN  [i \in 1..Len(kept) |-> kept[i][2]]

-----------------------------------------------------------------------------
(* The generic oracle loop *)

\* local names bound by lines 285-296, by branch
BoundLocals(with_oracles) ==
    IF with_oracles THEN {"oracles", "oracle_instances"}
                    ELSE {"oracles", "oracles_instances"}

\* local names the loop header of line 301 reads
LoopLocals == {"oracles", "oracles_instances"}

LoopStart(pen) ==
    [price |-> ZERO_PRICE, oracle_queried |-> BLOCKCHAIN, used_main_currency |-> FALSE,
     queried |-> <<>>, warnings |-> 0, pen |-> pen, stop |-> "run"]

LoopBody_penalty_only(oracle, oracles_instance, st, t, prov, coming_from_latest_price) ==
    LET o == oracles_instance.attribute
        interface == o \in CurrentPriceOracleInterface
        rate_limited == FALSE
        checks_penalty == interface /\ ~rate_limited /\ o \in PenalizablePriceOracleMixin
        checked == is_penalized(st.pen[o], t)
        pen1 == IF checks_penalty THEN [st.pen EXCEPT ![o] = checked.info] ELSE st.pen
        skipped == interface /\ (rate_limited \/ (checks_penalty /\ checked.result))
        st1 == [st EXCEPT !.pen = pen1]
        asked == [st1 EXCEPT !.queried = Append(st.queried, o)]
    IN  IF skipped THEN st1
        ELSE IF prov[o].kind = "price"
          THEN LET got == [asked EXCEPT !.price = prov[o].price,
                                        !.used_main_currency = prov[o].used_main_currency]
               IN  IF prov[o].price # ZERO_PRICE
                     THEN [got EXCEPT !.oracle_queried = oracle, !.stop = "break"]
                     ELSE got
        ELSE IF prov[o].kind = "RecursionError"
          THEN IF coming_from_latest_price
                 THEN [asked EXCEPT !.stop = "raise"]
                 ELSE [asked EXCEPT !.warnings = st.warnings + 1]
        ELSE asked

LoopBody_warns_nested(oracle, oracles_instance, st, t, prov, coming_from_latest_price) ==
    LET o == oracles_instance.attribute
        interface == o \in CurrentPriceOracleInterface
        rate_limited == prov[o].kind = "rate_limited"
        checks_penalty == interface /\ ~rate_limited /\ o \in PenalizablePriceOracleMixin
        checked == is_penalized(st.pen[o], t)
        pen1 == IF checks_penalty THEN [st.pen EXCEPT ![o] = checked.info] ELSE st.pen
        skipped == interface /\ (rate_limited \/ (checks_penalty /\ checked.result))
        st1 == [st EXCEPT !.pen = pen1]
        asked == [st1 EXCEPT !.queried = Append(st.queried, o)]
    IN  IF skipped THEN st1
        ELSE IF prov[o].kind = "price"
          THEN LET got == [asked EXCEPT !.price = prov[o].price,
                                        !.used_main_currency = prov[o].used_main_currency]
               IN  IF prov[o].price # ZERO_PRICE
                     THEN [got EXCEPT !.oracle_queried = oracle, !.stop = "break"]
                     ELSE got
        ELSE IF prov[o].kind = "RecursionError"
          THEN [asked EXCEPT !.warnings = st.warnings + 1]
        ELSE asked

LoopBody_tags_zero(oracle, oracles_instance, st, t, prov, coming_from_latest_price) ==
    LET o == oracles_instance.attribute
        interface == o \in CurrentPriceOracleInterface
        rate_limited == prov[o].kind = "rate_limited"
        checks_penalty == interface /\ ~rate_limited /\ o \in PenalizablePriceOracleMixin
        checked == is_penalized(st.pen[o], t)
        pen1 == IF checks_penalty THEN [st.pen EXCEPT ![o] = checked.info] ELSE st.pen
        skipped == interface /\ (rate_limited \/ (checks_penalty /\ checked.result))
        st1 == [st EXCEPT !.pen = pen1]
        asked == [st1 EXCEPT !.queried = Append(st.queried, o)]
    IN  IF skipped THEN st1
        ELSE IF prov[o].kind = "price"
          THEN LET got == [asked EXCEPT !.price = prov[o].price,
                                        !.used_main_currency = prov[o].used_main_currency]
               IN  IF prov[o].price # ZERO_PRICE
                     THEN [got EXCEPT !.oracle_queried = oracle, !.stop = "break"]
                     ELSE [got EXCEPT !.oracle_queried = oracle]
        ELSE IF prov[o].kind = "RecursionError"
          THEN IF coming_from_latest_price
                 THEN [asked EXCEPT !.stop = "raise"]
                 ELSE [asked EXCEPT !.warnings = st.warnings + 1]
        ELSE asked

\* one iteration of the loop body for oracle o (lines 302-341)
LoopBody(oracle, oracles_instance, st, t, prov, coming_from_latest_price) ==
    LET o == oracles_instance.attribute
        interface == o \in CurrentPriceOracleInterface
        rate_limited == prov[o].kind = "rate_limited"
        checks_penalty == interface /\ ~rate_limited /\ o \in PenalizablePriceOracleMixin
        checked == is_penalized(st.pen[o], t)
        pen1 == IF checks_penalty THEN [st.pen EXCEPT ![o] = checked.info] ELSE st.pen
        skipped == interface /\ (rate_limited \/ (checks_penalty /\ checked.result))
        st1 == [st EXCEPT !.pen = pen1]
        asked == [st1 EXCEPT !.queried = Append(st.queried, o)]
    IN  IF skipped THEN st1
        ELSE IF prov[o].kind = "price"
          THEN LET got == [asked EXCEPT !.price = prov[o].price,
                                        !.used_main_currency = prov[o].used_main_currency]
               IN  IF prov[o].price # ZERO_PRICE
                     THEN [got EXCEPT !.oracle_queried = oracle, !.stop = "break"]
                     ELSE got
        ELSE IF prov[o].kind = "RecursionError"
          THEN IF coming_from_latest_price
                 THEN [asked EXCEPT !.stop = "raise"]
                 ELSE [asked EXCEPT !.warnings = st.warnings + 1]
        ELSE asked

RECURSIVE LoopFrom_fan_out(_, _, _, _, _, _)
LoopFrom_fan_out(zipped, i, st, t, prov, coming_from_latest_price) ==
    IF i > Len(zipped) \/ st.stop = "raise" THEN st
    ELSE LoopFrom_fan_out(zipped, i + 1,
                          LoopBody(zipped[i][1], zipped[i][2], st, t, prov, coming_from_latest_price),
                          t, prov, coming_from_latest_price)

\* the loop over zip(oracles, oracles_instances), from position i on
RECURSIVE LoopFrom(_, _, _, _, _, _)
LoopFrom(zipped, i, st, t, prov, coming_from_latest_price) ==
    IF i > Len(zipped) \/ st.stop # "run" THEN st
    ELSE LoopFrom(zipped, i + 1,
                  LoopBody(zipped[i][1], zipped[i][2], st, t, prov, coming_from_latest_price),
                  t, prov, coming_from_latest_price)

query_oracle_instances_no_zero(S, from_asset, to_asset, coming_from_latest_price, skip_onchains, match_main_currency) ==
    LET cache_key == <<from_asset, to_asset>>
        with_oracles == is_asset_with_oracles(from_asset)
        ids == IF with_oracles
                 THEN (IF skip_onchains THEN S.oracles_not_onchain ELSE S.oracles)
                 ELSE <<MANUALCURRENT>>
        instances == IF with_oracles
                       THEN (IF skip_onchains THEN S.oracle_instances_not_onchain
                                              ELSE S.oracle_instances)
                       ELSE <<OracleInstance(MANUALCURRENT)>>
        end == LoopFrom(Zip(ids, instances), 1, LoopStart(S.pen), S.now, S.prov,
                        coming_from_latest_price)
    IN  IF ~S.order_set
          THEN Effect(Raised("AssertionError"), S.cache, S.pen, <<>>, 0, FALSE)
        \* is_asset_with_oracles() of an asset that is not in the DB
        ELSE IF AssetKind(from_asset) = "unknown"
          THEN Effect(Raised("UnknownAsset"), S.cache, S.pen, <<>>, 0, FALSE)
        ELSE IF ~(LoopLocals \subseteq BoundLocals(with_oracles))
          THEN Effect(Raised("UnboundLocalError"), S.cache, S.pen, <<>>, 0, FALSE)
        ELSE IF end.stop = "raise"
          THEN Effect(Raised("RecursionError"), S.cache, end.pen, end.queried, end.warnings, FALSE)
        ELSE Effect(Returned(end.price, end.oracle_queried, end.used_main_currency),
                    IF end.price = ZERO_PRICE THEN S.cache ELSE
                    Store(S.cache, cache_key,
                          CachedPriceEntry(end.price, S.now, end.oracle_queried, end.used_main_currency)),
                    end.pen, end.queried, end.warnings, FALSE)

query_oracle_instances_silent_default(S, from_asset, to_asset, coming_from_latest_price, skip_onchains, match_main_currency) ==
    LET cache_key == <<from_asset, to_asset>>
        with_oracles == is_asset_with_oracles(from_asset)
        ids == IF with_oracles
                 THEN (IF skip_onchains THEN S.oracles_not_onchain ELSE S.oracles)
                 ELSE <<MANUALCURRENT>>
        instances == IF with_oracles
                       THEN (IF skip_onchains THEN S.oracle_instances_not_onchain
                                              ELSE S.oracle_instances)
                       ELSE <<OracleInstance(MANUALCURRENT)>>
        end == LoopFrom(Zip(ids, instances), 1, LoopStart(S.pen), S.now, S.prov,
                        coming_from_latest_price)
    IN  IF AssetKind(from_asset) = "unknown"
          THEN Effect(Raised("UnknownAsset"), S.cache, S.pen, <<>>, 0, FALSE)
        ELSE IF ~(LoopLocals \subseteq BoundLocals(with_oracles))
          THEN Effect(Raised("UnboundLocalError"), S.cache, S.pen, <<>>, 0, FALSE)
        ELSE IF end.stop = "raise"
          THEN Effect(Raised("RecursionError"), S.cache, end.pen, end.queried, end.warnings, FALSE)
        ELSE Effect(Returned(end.price, end.oracle_queried, end.used_main_currency),
                    Store(S.cache, cache_key,
                          CachedPriceEntry(end.price, S.now, end.oracle_queried, end.used_main_currency)),
                    end.pen, end.queried, end.warnings, FALSE)

\* Inquirer._query_oracle_instances; S is the engine state the call sees
query_oracle_instances_stores_requested_flag(S, from_asset, to_asset, coming_from_latest_price, skip_onchains, match_main_currency) ==
    LET cache_key == <<from_asset, to_asset>>
        with_oracles == is_asset_with_oracles(from_asset)
        ids == IF with_oracles
                 THEN (IF skip_onchains THEN S.oracles_not_onchain ELSE S.oracles)
                 ELSE <<MANUALCURRENT>>
        instances == IF with_oracles
                       THEN (IF skip_onchains THEN S.oracle_instances_not_onchain
                                              ELSE S.oracle_instances)
                       ELSE <<OracleInstance(MANUALCURRENT)>>
        end == LoopFrom(Zip(ids, instances), 1, LoopStart(S.pen), S.now, S.prov,
                        coming_from_latest_price)
    IN  IF ~S.order_set
          THEN Effect(Raised("AssertionError"), S.cache, S.pen, <<>>, 0, FALSE)
        \* is_asset_with_oracles() of an asset that is not in the DB
        ELSE IF AssetKind(from_asset) = "unknown"
          THEN Effect(Raised("UnknownAsset"), S.cache, S.pen, <<>>, 0, FALSE)
        ELSE IF ~(LoopLocals \subseteq BoundLocals(with_oracles))
          THEN Effect(Raised("UnboundLocalError"), S.cache, S.pen, <<>>, 0, FALSE)
        ELSE IF end.stop = "raise"
          THEN Effect(Raised("RecursionError"), S.cache, end.pen, end.queried, end.warnings, FALSE)
        ELSE Effect(Returned(end.price, end.oracle_queried, end.used_main_currency),
                    Store(S.cache, cache_key,
                          CachedPriceEntry(end.price, S.now, end.oracle_queried, match_main_currency)),
                    end.pen, end.queried, end.warnings, FALSE)

query_oracle_instances_configured_order(S, from_asset, to_asset, coming_from_latest_price, skip_onchains, match_main_currency) ==
    LET cache_key == <<from_asset, to_asset>>
        with_oracles == is_asset_with_oracles(from_asset)
        ids == IF skip_onchains THEN S.oracles_not_onchain ELSE S.oracles
        instances == IF skip_onchains THEN S.oracle_instances_not_onchain
                                      ELSE S.oracle_instances
        end == LoopFrom(Zip(ids, instances), 1, LoopStart(S.pen), S.now, S.prov,
                        coming_from_latest_price)
    IN  IF ~S.order_set
          THEN Effect(Raised("AssertionError"), S.cache, S.pen, <<>>, 0, FALSE)
        \* is_asset_with_oracles() of an asset that is not in the DB
        ELSE IF AssetKind(from_asset) = "unknown"
          THEN Effect(Raised("UnknownAsset"), S.cache, S.pen, <<>>, 0, FALSE)
        ELSE IF ~(LoopLocals \subseteq BoundLocals(with_oracles))
          THEN Effect(Raised("UnboundLocalError"), S.cache, S.pen, <<>>, 0, FALSE)
        ELSE IF end.stop = "raise"
          THEN Effect(Raised("RecursionError"), S.cache, end.pen, end.queried, end.warnings, FALSE)
        ELSE Effect(Returned(end.price, end.oracle_queried, end.used_main_currency),
                    Store(S.cache, cache_key,
                          CachedPriceEntry(end.price, S.now, end.oracle_queried, end.used_main_currency)),
                    end.pen, end.queried, end.warnings, FALSE)


query_oracle_instances(S, from_asset, to_asset, coming_from_latest_price, skip_onchains, match_main_currency) ==
    LET cache_key == <<from_asset, to_asset>>
        with_oracles == is_asset_with_oracles(from_asset)
        ids == IF with_oracles
                 THEN (IF skip_onchains THEN S.oracles_not_onchain ELSE S.oracles)
                 ELSE <<MANUALCURRENT>>
        instances == IF with_oracles
                       THEN (IF skip_onchains THEN S.oracle_instances_not_onchain
                                              ELSE S.oracle_instances)
                       ELSE <<OracleInstance(MANUALCURRENT)>>
        end == LoopFrom(Zip(ids, instances), 1, LoopStart(S.pen), S.now, S.prov,
                        coming_from_latest_price)
    IN  IF ~S.order_set
          THEN Effect(Raised("AssertionError"), S.cache, S.pen, <<>>, 0, FALSE)
        \* is_asset_with_oracles() of an asset that is not in the DB
        ELSE IF AssetKind(from_asset) = "unknown"
          THEN Effect(Raised("UnknownAsset"), S.cache, S.pen, <<>>, 0, FALSE)
        ELSE IF ~(LoopLocals \subseteq BoundLocals(with_oracles))
          THEN Effect(Raised("UnboundLocalError"), S.cache, S.pen, <<>>, 0, FALSE)
        ELSE IF end.stop = "raise"
          THEN Effect(Raised("RecursionError"), S.cache, end.pen, end.queried, end.warnings, FALSE)
        ELSE Effect(Returned(end.price, end.oracle_queried, end.used_main_currency),
                    Store(S.cache, cache_key,
                          CachedPriceEntry(end.price, S.now, end.oracle_queried, end.used_main_currency)),
                    end.pen, end.queried, end.warnings, FALSE)

-----------------------------------------------------------------------------
(* Primary fiat currency path *)

\* parameter names of _query_oracle_instances (lines 254-259) and the
\* keywords the call of lines 564-570 passes
QueryOracleInstancesParams ==
    {"from_asset", "to_asset", "coming_from_latest_price", "skip_onchains", "match_main_currency"}

UsdCallKeywords ==
    {"from_asset", "to_asset", "coming_from_latest_price", "skip_onchain", "match_main_currency"}

CacheAnswer(S, entry) ==
    Effect(Returned(entry.price, entry.oracle, entry.used_main_currency),
           S.cache, S.pen, <<>>, 0, TRUE)

NoOracle(S, res) == Effect(res, S.cache, S.pen, <<>>, 0, FALSE)

find_usd_price_impl_unknown_to_oracles(S, asset, ignore_cache, skip_onchain, coming_from_latest_price, match_main_currency) ==
    LET cache_key == <<asset, A_USD>>
        cache == IF ignore_cache THEN <<>>
                 ELSE get_cached_current_price_entry(S.cache, S.now, cache_key, match_main_currency)
        kind == AssetKind(asset)
    IN  IF asset = A_USD THEN NoOracle(S, Returned(ONE, "CurrentPriceOracle", FALSE))
        ELSE IF cache # <<>> THEN CacheAnswer(S, cache[1])
        \* Inquirer has no attribute _query_fiat_pair
        ELSE IF kind = "fiat" THEN NoOracle(S, Raised("AttributeError"))
        \* no evm manager is injected: get_evm_manager asserts
        ELSE IF kind = "evm_special" THEN NoOracle(S, Raised("AssertionError"))
        \* get_underlying_asset_price returns None, which does not unpack
        ELSE IF kind = "evm_protocol" THEN NoOracle(S, Raised("TypeError"))
        \* get_bisq_market_price is not a name of the module
        ELSE IF asset = A_BSQ THEN NoOracle(S, Raised("NameError"))
        ELSE IF asset = A_KFEE THEN NoOracle(S, Returned(KFEE_USD_PRICE, FIAT, FALSE))
        ELSE IF ~(UsdCallKeywords \subseteq QueryOracleInstancesParams)
          THEN NoOracle(S, Raised("TypeError"))
        ELSE query_oracle_instances(S, asset, A_USD, coming_from_latest_price,
                                    skip_onchain, match_main_currency)

\* Inquirer._find_usd_price
find_usd_price_impl(S, asset, ignore_cache, skip_onchain, coming_from_latest_price, match_main_currency) ==
    LET cache_key == <<asset, A_USD>>
        cache == IF ignore_cache THEN <<>>
                 ELSE get_cached_current_price_entry(S.cache, S.now, cache_key, match_main_currency)
        kind == AssetKind(asset)
    IN  IF asset = A_USD THEN NoOracle(S, Returned(ONE, "CurrentPriceOracle", FALSE))
        ELSE IF cache # <<>> THEN CacheAnswer(S, cache[1])
        ELSE IF kind = "unknown" THEN NoOracle(S, Returned(ZERO_PRICE, FIAT, FALSE))
        \* Inquirer has no attribute _query_fiat_pair
        ELSE IF kind = "fiat" THEN NoOracle(S, Raised("AttributeError"))
        \* no evm manager is injected: get_evm_manager asserts
        ELSE IF kind = "evm_special" THEN NoOracle(S, Raised("AssertionError"))
        \* get_underlying_asset_price returns None, which does not unpack
        ELSE IF kind = "evm_protocol" THEN NoOracle(S, Raised("TypeError"))
        \* get_bisq_market_price is not a name of the module
        ELSE IF asset = A_BSQ THEN NoOracle(S, Raised("NameError"))
        ELSE IF asset = A_KFEE THEN NoOracle(S, Returned(KFEE_USD_PRICE, FIAT, FALSE))
        ELSE IF ~(UsdCallKeywords \subseteq QueryOracleInstancesParams)
          THEN NoOracle(S, Raised("TypeError"))
        ELSE query_oracle_instances(S, asset, A_USD, coming_from_latest_price,
                                    skip_onchain, match_main_currency)

-----------------------------------------------------------------------------
(* Generic path *)

find_price_impl_cache_first(S, from_asset, to_asset, ignore_cache, skip_onchain, coming_from_latest_price, match_main_currency) ==
    LET cache == get_cached_current_price_entry(S.cache, S.now, <<from_asset, to_asset>>,
                                                match_main_currency)
    IN  IF from_asset = to_asset THEN NoOracle(S, Returned(ONE, MANUALCURRENT, FALSE))
        ELSE IF to_asset = A_USD
          THEN find_usd_price_impl(S, from_asset, ignore_cache, FALSE,
                                   coming_from_latest_price, match_main_currency)
        ELSE IF cache # <<>> THEN CacheAnswer(S, cache[1])
        ELSE query_oracle_instances(S, from_asset, to_asset, coming_from_latest_price,
                                    skip_onchain, match_main_currency)

find_price_impl_no_identity(S, from_asset, to_asset, ignore_cache, skip_onchain, coming_from_latest_price, match_main_currency) ==
    LET cache == IF ignore_cache THEN <<>>
                 ELSE get_cached_current_price_entry(S.cache, S.now, <<from_asset, to_asset>>,
                                                     match_main_currency)
    IN  IF to_asset = A_USD
          THEN find_usd_price_impl(S, from_asset, ignore_cache, FALSE,
                                   coming_from_latest_price, match_main_currency)
        ELSE IF cache # <<>> THEN CacheAnswer(S, cache[1])
        ELSE query_oracle_instances(S, from_asset, to_asset, coming_from_latest_price,
                                    skip_onchain, match_main_currency)

find_price_impl_no_delegation(S, from_asset, to_asset, ignore_cache, skip_onchain, coming_from_latest_price, match_main_currency) ==
    LET cache == IF ignore_cache THEN <<>>
                 ELSE get_cached_current_price_entry(S.cache, S.now, <<from_asset, to_asset>>,
                                                     match_main_currency)
    IN  IF from_asset = to_asset THEN NoOracle(S, Returned(ONE, MANUALCURRENT, FALSE))
        ELSE IF cache # <<>> THEN CacheAnswer(S, cache[1])
        ELSE query_oracle_instances(S, from_asset, to_asset, coming_from_latest_price,
                                    skip_onchain, match_main_currency)

\* Inquirer._find_price
find_price_impl(S, from_asset, to_asset, ignore_cache, skip_onchain, coming_from_latest_price, match_main_currency) ==
    LET cache == IF ignore_cache THEN <<>>
                 ELSE get_cached_current_price_entry(S.cache, S.now, <<from_asset, to_asset>>,
                                                     match_main_currency)
    IN  IF from_asset = to_asset THEN NoOracle(S, Returned(ONE, MANUALCURRENT, FALSE))
        ELSE IF to_asset = A_USD
          THEN find_usd_price_impl(S, from_asset, ignore_cache, FALSE,
                                   coming_from_latest_price, match_main_currency)
        ELSE IF cache # <<>> THEN CacheAnswer(S, cache[1])
        ELSE query_oracle_instances(S, from_asset, to_asset, coming_from_latest_price,
                                    skip_onchain, match_main_currency)

-----------------------------------------------------------------------------
(* State *)

Pairs == Assets \X Assets

\* the engine state a resolution call sees
Engine ==
    [order_set |-> order_set, oracles |-> oracles, oracles_not_onchain |-> oracles_not_onchain,
     oracle_instances |-> oracle_instances,
     oracle_instances_not_onchain |-> oracle_instances_not_onchain,
     cache |-> cached_current_price, pen |-> penalty_info, now |-> now, prov |-> provider]

\* record of the operation that made the last step
NoCall ==
    [op |-> "init", from |-> "none", to |-> "none", ignore_cache |-> FALSE,
     match_main_currency |-> FALSE,
     res |-> Raised("none"), hit |-> FALSE, pre |-> <<>>, queried |-> <<>>, warnings |-> 0,
     oracle |-> "none", before |-> PenaltyInfo(0, 0), flag |-> FALSE,
     pairs_to_invalidate |-> {}, popped |-> 0, timestamp |-> 0, carried |-> <<>>]

\* the threads that call the engine, and a call that has not started
Callers == {1, 2}

IdleCall ==
    [pc |-> "idle", from |-> "none", to |-> "none", miss |-> FALSE, zipped |-> <<>>, i |-> 0,
     st |-> LoopStart(<<>>), res |-> Raised("none"), wrote |-> <<>>, finished |-> 0,
     overlapped |-> FALSE, oracle |-> "none", result |-> FALSE]

Fresh == [failures |-> 0, streak |-> 0, max_streak |-> 0]

Init ==
    /\ now = StartTime
    /\ order_set = FALSE
    /\ oracles = <<>>
    /\ oracles_not_onchain = <<>>
    /\ oracle_instances = <<>>
    /\ oracle_instances_not_onchain = <<>>
    /\ cached_current_price = <<>>
    /\ penalty_info = [o \in PenalizablePriceOracleMixin |-> PenaltyInfo(0, 0)]
    /\ provider = [o \in CurrentPriceOracleInstance |-> Answer(ZERO_PRICE, FALSE)]
    /\ hist = [o \in PenalizablePriceOracleMixin |-> Fresh]
    /\ price_historian = [instance |-> <<>>, mangled_instance |-> <<>>, oracles |-> <<>>]
    /\ price_history = {}
    /\ calls = [c \in Callers |-> IdleCall]
    /\ last = NoCall

-----------------------------------------------------------------------------
(* Environment *)

CacheStep == CURRENT_PRICE_CACHE_SECS
PenaltyStep == ORACLE_PENALTY_TS - CURRENT_PRICE_CACHE_SECS
TickSteps == {1, CacheStep, PenaltyStep}

\* the clock is StartTime + u + CacheStep * c + PenaltyStep * p with bounded u, c, p
InHorizon(t) ==
    LET n == t - StartTime
    IN  /\ n \div PenaltyStep <= MaxPenaltyTicks
        /\ (n % PenaltyStep) \div CacheStep <= MaxCacheTicks
        /\ (n % PenaltyStep) % CacheStep <= MaxUnitTicks

\* ts_now() advances
Tick(d) ==
    /\ InHorizon(now + d)
    /\ now' = now + d
    /\ last' = [NoCall EXCEPT !.op = "tick"]
    /\ UNCHANGED <<order_set, oracles, oracles_not_onchain, oracle_instances,
                   oracle_instances_not_onchain, cached_current_price,
                   penalty_info, provider, hist,
                   price_historian, price_history, calls>>

\* the provider behind oracle o changes what it answers
ProviderChanges(o, b) ==
    /\ provider[o] # b
    /\ provider' = [provider EXCEPT ![o] = b]
    /\ last' = [NoCall EXCEPT !.op = "provider", !.oracle = o]
    /\ UNCHANGED <<now, order_set, oracles, oracles_not_onchain, oracle_instances,
                   oracle_instances_not_onchain, cached_current_price,
                   penalty_info, hist,
                   price_historian, price_history, calls>>

-----------------------------------------------------------------------------
(* Operations of the penalty tracker *)

\* the query path of oracle o fails and records the failure
NoteFailure(o) ==
    /\ hist[o].failures < MaxFailures
    /\ penalty_info' = [penalty_info EXCEPT ![o] = note_failure_or_penalize(penalty_info[o], now)]
    /\ hist' = [hist EXCEPT ![o] = [failures |-> @.failures + 1,
                                    streak |-> @.streak + 1,
                                    max_streak |-> IF @.streak + 1 > @.max_streak
                                                     THEN @.streak + 1 ELSE @.max_streak]]
    /\ last' = [NoCall EXCEPT !.op = "note_failure_or_penalize", !.oracle = o,
                              !.before = penalty_info[o]]
    /\ UNCHANGED <<now, order_set, oracles, oracles_not_onchain, oracle_instances,
                   oracle_instances_not_onchain, cached_current_price, provider,
                   price_historian, price_history, calls>>

\* the query path of oracle o succeeds: PenaltyInfo has no operation for it
QuerySucceeded(o) ==
    /\ hist[o].streak > 0
    /\ hist' = [hist EXCEPT ![o].streak = 0]
    /\ last' = [NoCall EXCEPT !.op = "query_succeeded", !.oracle = o,
                              !.before = penalty_info[o]]
    /\ UNCHANGED <<now, order_set, oracles, oracles_not_onchain, oracle_instances,
                   oracle_instances_not_onchain, cached_current_price,
                   penalty_info, provider,
                   price_historian, price_history, calls>>

IsPenalized(o) ==
    LET r == is_penalized(penalty_info[o], now)
    IN  /\ penalty_info' = [penalty_info EXCEPT ![o] = r.info]
        /\ last' = [NoCall EXCEPT !.op = "is_penalized", !.oracle = o,
                                  !.before = penalty_info[o], !.flag = r.result]
        /\ UNCHANGED <<now, order_set, oracles, oracles_not_onchain, oracle_instances,
                   oracle_instances_not_onchain, cached_current_price,
                       provider, hist,
                   price_historian, price_history, calls>>

-----------------------------------------------------------------------------
(* Operations of the engine *)

SetOraclesOrder(ids) ==
    /\ IF ValidOrder(ids)
         THEN /\ order_set' = TRUE
              /\ oracles' = ids
              /\ oracle_instances' = OracleInstances(ids)
              /\ oracles_not_onchain' = NotOnchain(ids)
              /\ oracle_instances_not_onchain' = InstancesNotOnchain(ids, OracleInstances(ids))
              /\ last' = [NoCall EXCEPT !.op = "set_oracles_order", !.queried = ids,
                                        !.res = Returned(ZERO_PRICE, "none", FALSE)]
         ELSE /\ UNCHANGED <<order_set, oracles, oracles_not_onchain, oracle_instances,
                              oracle_instances_not_onchain>>
              /\ last' = [NoCall EXCEPT !.op = "set_oracles_order", !.queried = ids,
                                        !.res = Raised("AssertionError")]
    /\ UNCHANGED <<now, cached_current_price, penalty_info, provider, hist,
                   price_historian, price_history, calls>>

PreEntry(key) == IF key \in DOMAIN cached_current_price THEN <<cached_current_price[key]>> ELSE <<>>

Resolve_drops_skipped(op, from_asset, to_asset, ignore_cache, skip_onchain, coming_from_latest_price, match_main_currency, e, res) ==
    /\ cached_current_price' = e.cache
    /\ penalty_info' = e.pen
    /\ oracles' = SelectSeq(oracles, LAMBDA o : provider[o].kind # "rate_limited")
    /\ last' = [NoCall EXCEPT !.op = op, !.from = from_asset, !.to = to_asset,
                              !.ignore_cache = ignore_cache,
                              !.match_main_currency = match_main_currency,
                              !.res = res, !.hit = e.hit, !.pre = PreEntry(<<from_asset, to_asset>>),
                              !.queried = e.queried, !.warnings = e.warnings]
    /\ UNCHANGED <<now, order_set, oracles_not_onchain, oracle_instances,
                   oracle_instances_not_onchain, provider, hist,
                   price_historian, price_history, calls>>

\* a resolution call with effect e takes place
Resolve(op, from_asset, to_asset, ignore_cache, skip_onchain, coming_from_latest_price, match_main_currency, e, res) ==
    /\ cached_current_price' = e.cache
    /\ penalty_info' = e.pen
    /\ last' = [NoCall EXCEPT !.op = op, !.from = from_asset, !.to = to_asset,
                              !.ignore_cache = ignore_cache,
                              !.match_main_currency = match_main_currency,
                              !.res = res, !.hit = e.hit, !.pre = PreEntry(<<from_asset, to_asset>>),
                              !.queried = e.queried, !.warnings = e.warnings]
    /\ UNCHANGED <<now, order_set, oracles, oracles_not_onchain, oracle_instances,
                   oracle_instances_not_onchain, provider, hist,
                   price_historian, price_history, calls>>

\* the wrappers that return the price alone
PriceOnly(res) == IF res.outcome = "return" THEN Returned(res.price, "none", FALSE) ELSE res

FindPriceAddOracle(from_asset, to_asset, ignore_cache, skip_onchain, coming_from_latest_price, match_main_currency) ==
    LET e == find_price_impl(Engine, from_asset, to_asset, ignore_cache, skip_onchain,
                             coming_from_latest_price, match_main_currency)
    IN  Resolve("find_price_add_oracle", from_asset, to_asset, ignore_cache, skip_onchain,
                coming_from_latest_price, match_main_currency, e, e.res)

FindPrice(from_asset, to_asset, ignore_cache, skip_onchain, coming_from_latest_price) ==
    LET e == find_price_impl(Engine, from_asset, to_asset, ignore_cache, skip_onchain,
                             coming_from_latest_price, FALSE)
    IN  Resolve("find_price", from_asset, to_asset, ignore_cache, skip_onchain,
                coming_from_latest_price, FALSE, e, PriceOnly(e.res))

FindUsdPriceAndOracle(asset, ignore_cache, skip_onchain, coming_from_latest_price, match_main_currency) ==
    LET e == find_usd_price_impl(Engine, asset, ignore_cache, skip_onchain,
                                 coming_from_latest_price, match_main_currency)
    IN  Resolve("find_usd_price_and_oracle", asset, A_USD, ignore_cache, skip_onchain,
                coming_from_latest_price, match_main_currency, e, e.res)

FindUsdPrice(asset, ignore_cache, skip_onchain, coming_from_latest_price) ==
    LET e == find_usd_price_impl(Engine, asset, ignore_cache, skip_onchain,
                                 coming_from_latest_price, FALSE)
    IN  Resolve("find_usd_price", asset, A_USD, ignore_cache, skip_onchain,
                coming_from_latest_price, FALSE, e, PriceOnly(e.res))

GetCachedCurrentPriceEntry(cache_key, match_main_currency) ==
    LET c == get_cached_current_price_entry(cached_current_price, now, cache_key, match_main_currency)
    IN  /\ last' = [NoCall EXCEPT !.op = "get_cached_current_price_entry",
                                  !.from = cache_key[1], !.to = cache_key[2],
                                  !.match_main_currency = match_main_currency,
                                  !.hit = (c # <<>>), !.pre = PreEntry(cache_key),
                                  !.res = IF c = <<>> THEN Returned(ZERO_PRICE, "none", FALSE)
                                          ELSE Returned(c[1].price, c[1].oracle, c[1].used_main_currency)]
        /\ UNCHANGED <<now, order_set, oracles, oracles_not_onchain, oracle_instances,
                   oracle_instances_not_onchain, cached_current_price,
                       penalty_info, provider, hist,
                   price_historian, price_history, calls>>

RemoveCachePricesForAsset(pairs_to_invalidate) ==
    /\ cached_current_price' = remove_cache_prices_for_asset(cached_current_price, pairs_to_invalidate)
    /\ last' = [NoCall EXCEPT !.op = "remove_cache_prices_for_asset",
                              !.pairs_to_invalidate = pairs_to_invalidate,
                              !.popped = Cardinality(DOMAIN cached_current_price)
                                         - Cardinality(DOMAIN cached_current_price')]
    /\ UNCHANGED <<now, order_set, oracles, oracles_not_onchain, oracle_instances,
                   oracle_instances_not_onchain, penalty_info, provider, hist,
                   price_historian, price_history, calls>>

RemoveCachedCurrentPriceEntry(cache_key) ==
    /\ cached_current_price' = remove_cached_current_price_entry(cached_current_price, cache_key)
    /\ last' = [NoCall EXCEPT !.op = "remove_cached_current_price_entry",
                              !.from = cache_key[1], !.to = cache_key[2],
                              !.popped = Cardinality(DOMAIN cached_current_price)
                                         - Cardinality(DOMAIN cached_current_price')]
    /\ UNCHANGED <<now, order_set, oracles, oracles_not_onchain, oracle_instances,
                   oracle_instances_not_onchain, penalty_info, provider, hist,
                   price_historian, price_history, calls>>

-----------------------------------------------------------------------------
(* Specifications *)

TickNext(steps) == \E d \in steps : Tick(d)

ProviderNext(ids, answers) == \E o \in ids, b \in answers : ProviderChanges(o, b)

SetOrderNext(orders) == \E ids \in orders : SetOraclesOrder(ids)

FindPriceAddOracleNext(froms, tos, flags) ==
    \E f \in froms, t \in tos, ic \in BOOLEAN, so \in flags, cf \in flags, mm \in BOOLEAN :
        FindPriceAddOracle(f, t, ic, so, cf, mm)

FindPriceNext(froms, tos, flags) ==
    \E f \in froms, t \in tos, ic \in BOOLEAN, so \in flags, cf \in flags :
        FindPrice(f, t, ic, so, cf)

FindUsdPriceAndOracleNext(froms, flags) ==
    \E a \in froms, ic \in BOOLEAN, so \in flags, cf \in flags, mm \in BOOLEAN :
        FindUsdPriceAndOracle(a, ic, so, cf, mm)

FindUsdPriceNext(froms, flags) ==
    \E a \in froms, ic \in BOOLEAN, so \in flags, cf \in flags :
        FindUsdPrice(a, ic, so, cf)

GetCachedNext(froms, tos) ==
    \E f \in froms, t \in tos, mm \in BOOLEAN : GetCachedCurrentPriceEntry(<<f, t>>, mm)

RemoveAssetNext(froms) == \E a \in froms : RemoveCachePricesForAsset({<<a, a>>})

RemovePairsNext(lists) == \E pairs_to_invalidate \in lists : RemoveCachePricesForAsset(pairs_to_invalidate)

RemoveEntryNext(froms, tos) == \E f \in froms, t \in tos : RemoveCachedCurrentPriceEntry(<<f, t>>)

\* The engine with its cache: one valid and one invalid order, a fiat target,
\* an asset with oracles and one without.  find_price_add_oracle takes every
\* combination of its flags; the other entry points, which pass their flags
\* on to the same two functions, leave skip_onchain and
\* coming_from_latest_price at their defaults.
Orders == {<<>>, <<COINGECKO, UNISWAPV2, MANUALCURRENT>>}
CallAssets == {"USD", "BTC", "NFT"}
ManualAnswers == {Answer(ZERO_PRICE, FALSE), Answer(ZERO_PRICE, TRUE), Answer(SomePrice, FALSE),
                  Answer(SomePrice, TRUE), RateLimited, RemoteError, RecursionError}

Next ==
    \/ TickNext({1, CacheStep})
    \/ ProviderNext({MANUALCURRENT}, ManualAnswers)
    \/ SetOrderNext(Orders)
    \/ FindPriceAddOracleNext(CallAssets, CallAssets, BOOLEAN)
    \/ FindPriceNext(CallAssets, CallAssets, {FALSE})
    \/ FindUsdPriceAndOracleNext(CallAssets, {FALSE})
    \/ FindUsdPriceNext(CallAssets, {FALSE})
    \/ GetCachedNext({"NFT"}, {"BTC"})
    \/ RemoveAssetNext({"BTC"})
    \/ RemoveEntryNext({"NFT"}, {"BTC"})

Spec == Init /\ [][Next]_vars

\* The penalty tracker of one oracle under its own query path and the clock.
PenaltyNext ==
    \/ TickNext(TickSteps)
    \/ NoteFailure(COINGECKO)
    \/ QuerySucceeded(COINGECKO)
    \/ IsPenalized(COINGECKO)

SpecPenalty == Init /\ [][PenaltyNext]_vars

\* The oracle chain: configured orders, providers that answer, fail or give
\* the zero price, an oracle that collects failures, and resolutions of an
\* asset with oracles.
ChainOrders == {<<COINGECKO, CRYPTOCOMPARE, MANUALCURRENT>>, <<CRYPTOCOMPARE, COINGECKO>>}
ChainAnswers == {Answer(ZERO_PRICE, FALSE), Answer(SomePrice, FALSE), RemoteError}

ChainNext ==
    \/ TickNext(TickSteps)
    \/ ProviderNext({COINGECKO, CRYPTOCOMPARE}, ChainAnswers)
    \/ SetOrderNext(ChainOrders)
    \/ NoteFailure(COINGECKO)
    \/ IsPenalized(COINGECKO)
    \/ FindPriceAddOracleNext({"BTC"}, {"EUR"}, {FALSE})

SpecChain == Init /\ [][ChainNext]_vars

\* The oracle registry: orders that are empty, repeat an id or are valid with
\* the on-chain oracles at different places, providers that answer, throttle
\* or fail, an oracle that collects failures, and every resolution entry point
\* for an asset with oracles and one without.
RegistryOrders == {<<>>, <<COINGECKO, COINGECKO>>, <<UNISWAPV2, COINGECKO, MANUALCURRENT>>,
                   <<MANUALCURRENT, UNISWAPV3, COINGECKO, UNISWAPV2>>}
RegistryAnswers == {Answer(SomePrice, FALSE), RateLimited, RemoteError}
RegistryAssets == {"BTC", "NFT"}

RegistryNext ==
    \/ ProviderNext({COINGECKO, MANUALCURRENT}, RegistryAnswers)
    \/ SetOrderNext(RegistryOrders)
    \/ NoteFailure(COINGECKO)
    \/ FindPriceAddOracleNext(RegistryAssets, {"EUR", "USD"}, BOOLEAN)
    \/ FindPriceNext(RegistryAssets, {"EUR"}, BOOLEAN)
    \/ FindUsdPriceAndOracleNext({"BTC"}, BOOLEAN)
    \/ FindUsdPriceNext({"BTC"}, BOOLEAN)

SpecRegistry == Init /\ [][RegistryNext]_vars

\* The special cases: every kind of asset, priced in USD and in another
\* currency through every entry point, before and after an order is set, with
\* a configured oracle that answers or fails.
SpecialAssets == {"USD", "EUR", "BTC", "BSQ", "KFEE", "UNK", "CRV", "LPT", "NFT"}
SpecialTargets == {"USD", "EUR"}
SpecialAnswers == {Answer(SomePrice, FALSE), RemoteError}

SpecialNext ==
    \/ TickNext({1})
    \/ ProviderNext({COINGECKO, MANUALCURRENT}, SpecialAnswers)
    \/ SetOrderNext({<<COINGECKO, MANUALCURRENT>>})
    \/ FindPriceAddOracleNext(SpecialAssets, SpecialTargets, {FALSE})
    \/ FindPriceNext(SpecialAssets, SpecialTargets, {FALSE})
    \/ FindUsdPriceAndOracleNext(SpecialAssets, {FALSE})
    \/ FindUsdPriceNext(SpecialAssets, {FALSE})

SpecSpecial == Init /\ [][SpecialNext]_vars

\* Resolution without the on-chain oracles: every call is made with
\* skip_onchain = true, under orders that hold on-chain oracles whose
\* providers would answer.
OffchainOrders == {<<UNISWAPV2, MANUALCURRENT, UNISWAPV3>>, <<COINGECKO, UNISWAPV3, MANUALCURRENT>>}
OffchainAnswers == {Answer(SomePrice, FALSE), RemoteError}
OffchainTargets == {"EUR", "USD"}

OffchainNext ==
    \/ TickNext({1})
    \/ ProviderNext({UNISWAPV2, UNISWAPV3, MANUALCURRENT}, OffchainAnswers)
    \/ SetOrderNext(OffchainOrders)
    \/ FindPriceAddOracleNext(RegistryAssets, OffchainTargets, {TRUE})
    \/ FindPriceNext(RegistryAssets, OffchainTargets, {TRUE})
    \/ FindUsdPriceAndOracleNext(RegistryAssets, {TRUE})
    \/ FindUsdPriceNext(RegistryAssets, {TRUE})

SpecOffchain == Init /\ [][OffchainNext]_vars

\* Manual latest prices that form a loop: the manual oracle raises
\* RecursionError at either place of the order, the other oracle answers or
\* fails, and every call is a top-level one (coming_from_latest_price = false).
CycleOrders == {<<MANUALCURRENT, COINGECKO>>, <<COINGECKO, MANUALCURRENT>>}

CycleNext ==
    \/ TickNext({1, CacheStep})
    \/ ProviderNext({MANUALCURRENT}, {RecursionError, Answer(SomePrice, FALSE)})
    \/ ProviderNext({COINGECKO}, {Answer(SomePrice, FALSE), RemoteError})
    \/ SetOrderNext(CycleOrders)
    \/ FindPriceAddOracleNext(RegistryAssets, {"EUR"}, {FALSE})
    \/ FindPriceNext(RegistryAssets, {"EUR"}, {FALSE})

SpecCycle == Init /\ [][CycleNext]_vars

\* The same loop of manual prices seen from inside a manual-price lookup:
\* every call is a nested one (coming_from_latest_price = true).
NestedNext ==
    \/ TickNext({1, CacheStep})
    \/ ProviderNext({MANUALCURRENT}, {RecursionError, Answer(SomePrice, FALSE)})
    \/ ProviderNext({COINGECKO}, {Answer(SomePrice, FALSE), RemoteError})
    \/ SetOrderNext(CycleOrders)
    \/ FindPriceAddOracleNext(RegistryAssets, {"EUR"}, {TRUE})
    \/ FindPriceNext(RegistryAssets, {"EUR"}, {TRUE})

SpecNested == Init /\ [][NestedNext]_vars

\* Cache invalidation: entries for several pairs, written at different
\* times, and removals by asset and by key that hit some, all or none of them.
InvalidationTargets == {"BTC", "EUR", "KFEE"}
InvalidationLists == {{}, {<<"BTC", "BTC">>}, {<<"EUR", "KFEE">>}, {<<"NFT", "BTC">>},
                      {<<"CRV", "LPT">>}}

InvalidateNext ==
    \/ TickNext({1})
    \/ ProviderNext({MANUALCURRENT}, {Answer(SomePrice, FALSE)})
    \/ SetOrderNext({<<MANUALCURRENT>>})
    \/ FindPriceAddOracleNext({"NFT"}, InvalidationTargets, {FALSE})
    \/ RemovePairsNext(InvalidationLists)
    \/ RemoveEntryNext({"NFT", "BTC"}, {"BTC", "EUR"})

SpecInvalidate == Init /\ [][InvalidateNext]_vars

-----------------------------------------------------------------------------
(* Historical prices: PriceHistorian of backend/history/price.py and the   *)
(* manual oracle of backend/globalcommon/manual_price_oracles.py.          *)
(* price_historian holds the class attribute _instance that __new__ reads, *)
(* the attribute _PriceHistorian__instance that __new__ writes, and the    *)
(* configured order; price_history is the table of recorded prices.        *)

MANUAL == "manual"
DEFILLAMA == "defillama"
HistoricalPriceOracle == {MANUAL, COINGECKO, CRYPTOCOMPARE, DEFILLAMA}

max_seconds_distance == 3600

\* price of a model object whose text field was never assigned
UNSET_PRICE == -1

HistoryTimestamps == {1000, 1000 + max_seconds_distance, 1001 + max_seconds_distance}
HistoryAssets == {"USD", "EUR", "BTC", "KFEE"}
HistoryOrders == {<<>>, <<MANUAL>>, <<MANUAL, MANUAL>>, <<COINGECKO, MANUAL>>}
PriceHistoryRows ==
    [from_asset : {"BTC"}, to_asset : {"USD", "EUR"}, source_type : {MANUAL},
     timestamp : {1000}, price : {SomePrice}]

NoneReturned == [outcome |-> "None", price |-> ZERO_PRICE, oracle |-> "none", used_main_currency |-> FALSE]

\* PriceHistorian.__new__: the singleton that was found or made, or the failed assertion
PriceHistorianNew(H, with_arguments) ==
    IF H.instance # <<>>
      THEN [outcome |-> "return", instance |-> H.instance, H |-> H]
      ELSE IF ~with_arguments
        THEN [outcome |-> "AssertionError", instance |-> <<>>, H |-> H]
        ELSE LET made == IF H.mangled_instance = <<>> THEN 1 ELSE H.mangled_instance[1] + 1
             IN  [outcome |-> "return", instance |-> <<made>>,
                  H |-> [H EXCEPT !.mangled_instance = <<made>>]]

RECURSIVE query_historical_price(_, _, _, _)
RECURSIVE get_price_for_special_asset(_, _, _, _)

get_price_for_special_asset(H, from_asset, to_asset, timestamp) ==
    IF from_asset = A_KFEE
      THEN IF to_asset = A_USD
             THEN Returned(KFEE_USD_PRICE, "none", FALSE)
             ELSE LET instance == PriceHistorianNew(H, FALSE)
                  IN  IF instance.outcome # "return"
                        THEN Raised(instance.outcome)
                        ELSE LET price_mapping == query_historical_price(H, A_USD, to_asset, timestamp)
                             IN  CASE price_mapping.outcome = "return" ->
                                        Returned((KFEE_USD_PRICE * price_mapping.price) \div ONE, "none", FALSE)
                                   [] price_mapping.outcome = "None" -> Raised("TypeError")
                                   [] OTHER -> price_mapping
      ELSE NoneReturned

query_historical_price(H, from_asset, to_asset, timestamp) ==
    IF from_asset = to_asset
      THEN Returned(ONE, "none", FALSE)
      ELSE LET instance == PriceHistorianNew(H, FALSE)
           IN  IF instance.outcome # "return"
                 THEN Raised(instance.outcome)
                 ELSE LET special_asset_price == get_price_for_special_asset(H, from_asset, to_asset, timestamp)
                      IN  IF special_asset_price.outcome # "None"
                            THEN special_asset_price
                            ELSE IF AssetKind(from_asset) = "fiat" /\ AssetKind(to_asset) = "fiat"
                                   THEN Raised("NameError")
                                   ELSE NoneReturned

\* what constructing PriceHistory with the keyword max_seconds_distance,
\* which is no field of the model, can do
PriceHistoryConstructor == {"TypeError", "object"}

\* ManualPriceOracle.query_historical_price: the result and the triple an error carries
manual_query_historical_price(constructed, from_asset, to_asset, timestamp) ==
    IF constructed = "TypeError"
      THEN [res |-> Raised("TypeError"), carried |-> <<>>]
      ELSE LET price_entry == <<[from_asset |-> from_asset, to_asset |-> to_asset,
                                 source_type |-> MANUAL, timestamp |-> timestamp,
                                 price |-> UNSET_PRICE]>>
           IN  IF price_entry # <<>>
                 THEN [res |-> Returned(price_entry[1].price, MANUAL, FALSE), carried |-> <<>>]
                 ELSE [res |-> Raised("NoPriceForGivenTimestamp"),
                       carried |-> <<from_asset, to_asset, timestamp>>]

PriceHistorianCalled(with_arguments) ==
    LET new == PriceHistorianNew(price_historian, with_arguments)
    IN  /\ new.instance # <<>> => new.instance[1] <= MaxInstances
        /\ price_historian' = new.H
        /\ last' = [NoCall EXCEPT !.op = "PriceHistorian", !.flag = with_arguments,
                                  !.res = IF new.outcome = "return"
                                            THEN Returned(ZERO_PRICE, "none", FALSE)
                                            ELSE Raised(new.outcome),
                                  !.queried = new.instance,
                                  !.pre = price_historian.mangled_instance]
        /\ UNCHANGED <<now, order_set, oracles, oracles_not_onchain, oracle_instances,
                       oracle_instances_not_onchain, cached_current_price,
                       penalty_info, provider, hist, price_history, calls>>

\* Inquirer.__new__ once the engine exists: __instance is read and written
\* under the same name, so the instance is found and returned as it is
InquirerCalled(with_arguments) ==
    /\ last' = [NoCall EXCEPT !.op = "Inquirer", !.flag = with_arguments,
                              !.res = Returned(ZERO_PRICE, "none", FALSE)]
    /\ UNCHANGED <<now, order_set, oracles, oracles_not_onchain, oracle_instances,
                   oracle_instances_not_onchain, cached_current_price,
                   penalty_info, provider, hist, price_historian, price_history, calls>>

HistorianSetOraclesOrder(ids) ==
    LET valid == Len(ids) # 0 /\ Len(ids) = Cardinality({ids[i] : i \in 1..Len(ids)})
        instance == PriceHistorianNew(price_historian, FALSE)
    IN  /\ IF valid /\ instance.outcome = "return"
             THEN price_historian' = [price_historian EXCEPT !.oracles = ids]
             ELSE UNCHANGED price_historian
        /\ last' = [NoCall EXCEPT !.op = "historian.set_oracles_order", !.queried = ids,
                                  !.res = IF ~valid THEN Raised("AssertionError")
                                          ELSE IF instance.outcome # "return" THEN Raised(instance.outcome)
                                          ELSE Returned(ZERO_PRICE, "none", FALSE)]
        /\ UNCHANGED <<now, order_set, oracles, oracles_not_onchain, oracle_instances,
                       oracle_instances_not_onchain, cached_current_price,
                       penalty_info, provider, hist, price_history, calls>>

QueryHistoricalPrice(from_asset, to_asset, timestamp) ==
    /\ last' = [NoCall EXCEPT !.op = "query_historical_price",
                              !.from = from_asset, !.to = to_asset, !.timestamp = timestamp,
                              !.res = query_historical_price(price_historian, from_asset, to_asset, timestamp)]
    /\ UNCHANGED <<now, order_set, oracles, oracles_not_onchain, oracle_instances,
                   oracle_instances_not_onchain, cached_current_price,
                   penalty_info, provider, hist, price_historian, price_history, calls>>

GetPriceForSpecialAsset(from_asset, to_asset, timestamp) ==
    /\ last' = [NoCall EXCEPT !.op = "get_price_for_special_asset",
                              !.from = from_asset, !.to = to_asset, !.timestamp = timestamp,
                              !.res = get_price_for_special_asset(price_historian, from_asset, to_asset, timestamp)]
    /\ UNCHANGED <<now, order_set, oracles, oracles_not_onchain, oracle_instances,
                   oracle_instances_not_onchain, cached_current_price,
                   penalty_info, provider, hist, price_historian, price_history, calls>>

ManualQueryHistoricalPrice(from_asset, to_asset, timestamp) ==
    \E constructed \in PriceHistoryConstructor :
        LET e == manual_query_historical_price(constructed, from_asset, to_asset, timestamp)
        IN  /\ last' = [NoCall EXCEPT !.op = "manual.query_historical_price",
                                      !.from = from_asset, !.to = to_asset,
                                      !.timestamp = timestamp,
                                      !.res = e.res, !.carried = e.carried]
            /\ UNCHANGED <<now, order_set, oracles, oracles_not_onchain, oracle_instances,
                           oracle_instances_not_onchain, cached_current_price,
                           penalty_info, provider, hist, price_historian, price_history, calls>>

\* a manual price is saved in the price_history table
PriceRecorded(row) ==
    /\ row \notin price_history
    /\ price_history' = price_history \cup {row}
    /\ last' = [NoCall EXCEPT !.op = "price_recorded", !.from = row.from_asset,
                              !.to = row.to_asset, !.timestamp = row.timestamp]
    /\ UNCHANGED <<now, order_set, oracles, oracles_not_onchain, oracle_instances,
                   oracle_instances_not_onchain, cached_current_price,
                   penalty_info, provider, hist, price_historian, calls>>

HistoryNext ==
    \/ \E with_arguments \in BOOLEAN : PriceHistorianCalled(with_arguments)
    \/ \E with_arguments \in BOOLEAN : InquirerCalled(with_arguments)
    \/ \E ids \in HistoryOrders : HistorianSetOraclesOrder(ids)
    \/ \E f \in HistoryAssets, t \in HistoryAssets, ts \in HistoryTimestamps :
          QueryHistoricalPrice(f, t, ts)
    \/ \E f \in HistoryAssets, t \in HistoryAssets, ts \in HistoryTimestamps :
          GetPriceForSpecialAsset(f, t, ts)
    \/ \E f \in HistoryAssets, t \in HistoryAssets, ts \in HistoryTimestamps :
          ManualQueryHistoricalPrice(f, t, ts)
    \/ \E row \in PriceHistoryRows : PriceRecorded(row)

SpecHistory == Init /\ [][HistoryNext]_vars

-----------------------------------------------------------------------------
(* Concurrent resolution calls.  A call gives up control where it waits    *)
(* for an oracle's answer (query_current_price, line 312); what it does    *)
(* before and after is one step each.  The engine takes no lock.           *)

NoPenalties == [o \in PenalizablePriceOracleMixin |-> PenaltyInfo(0, 0)]

\* the lists the loop header zips for from_asset (lines 285-296), skip_onchains = false
CallZipped(from_asset) ==
    IF is_asset_with_oracles(from_asset)
      THEN Zip(oracles, oracle_instances)
      ELSE Zip(<<MANUALCURRENT>>, <<OracleInstance(MANUALCURRENT)>>)

\* the loop from position i up to the first oracle that is not skipped
\* (lines 301-310): its position, or Len(zipped) + 1, and the locals there
RECURSIVE ScanToQuery(_, _, _, _, _)
ScanToQuery(zipped, i, st, t, prov) ==
    IF i > Len(zipped) THEN [i |-> i, st |-> st]
    ELSE LET r == LoopBody(zipped[i][1], zipped[i][2], st, t, prov, FALSE)
         IN  IF r.queried = st.queried
               THEN ScanToQuery(zipped, i + 1, r, t, prov)
               ELSE [i |-> i, st |-> [st EXCEPT !.pen = r.pen]]

\* the rest of the iteration at position i once the oracle has answered (lines 311-341)
AnswerAt(zipped, i, st, t, prov) ==
    LET r == LoopBody(zipped[i][1], zipped[i][2], [st EXCEPT !.pen = NoPenalties], t, prov, FALSE)
    IN  [r EXCEPT !.pen = st.pen]

\* how many calls have returned
Finished == Cardinality({c \in Callers : calls[c].pc = "done"})

InFlight(c) == calls[c].pc = "querying"

\* find_price_add_oracle(from_asset, to_asset) up to its first oracle query
CallStarts(c, from_asset, to_asset) ==
    LET e == find_price_impl(Engine, from_asset, to_asset, FALSE, FALSE, FALSE, FALSE)
        zipped == CallZipped(from_asset)
        scan == ScanToQuery(zipped, 1, LoopStart(penalty_info), now, provider)
        overlapped == \E d \in Callers \ {c} :
                          InFlight(d) /\ calls[d].from = from_asset /\ calls[d].to = to_asset
    IN  /\ calls[c].pc = "idle"
        /\ from_asset # to_asset
        /\ to_asset # A_USD
        /\ IF e.queried = <<>>
             THEN /\ cached_current_price' = e.cache
                  /\ penalty_info' = e.pen
                  /\ calls' = [calls EXCEPT ![c] =
                                 [IdleCall EXCEPT !.pc = "done", !.from = from_asset, !.to = to_asset,
                                                  !.miss = ~e.hit, !.res = e.res,
                                                  !.finished = Finished + 1]]
             ELSE /\ penalty_info' = scan.st.pen
                  /\ calls' = [calls EXCEPT ![c] =
                                 [IdleCall EXCEPT !.pc = "querying", !.from = from_asset,
                                                  !.to = to_asset, !.miss = TRUE,
                                                  !.zipped = zipped, !.i = scan.i,
                                                  !.st = [scan.st EXCEPT !.pen = <<>>],
                                                  !.overlapped = overlapped]]
                  /\ UNCHANGED cached_current_price
        /\ last' = [NoCall EXCEPT !.op = "call_starts", !.from = from_asset, !.to = to_asset,
                                  !.pre = PreEntry(<<from_asset, to_asset>>)]
        /\ UNCHANGED <<now, order_set, oracles, oracles_not_onchain, oracle_instances,
                       oracle_instances_not_onchain, provider, hist,
                       price_historian, price_history>>

\* the oracle a call waits for answers: the call goes on to its next query,
\* or leaves the loop, writes the cache (lines 343-348) and returns
CallAnswered(c) ==
    LET call == calls[c]
        o == call.zipped[call.i][2].attribute
        a == AnswerAt(call.zipped, call.i, [call.st EXCEPT !.pen = penalty_info], now, provider)
        scan == ScanToQuery(call.zipped, call.i + 1, a, now, provider)
        end == IF a.stop = "run" THEN scan.st ELSE a
        entry == CachedPriceEntry(end.price, now, end.oracle_queried, end.used_main_currency)
    IN  /\ InFlight(c)
        /\ provider[o].kind # "rate_limited"
        /\ penalty_info' = end.pen
        /\ IF a.stop = "run" /\ scan.i <= Len(call.zipped)
             THEN /\ calls' = [calls EXCEPT ![c].i = scan.i,
                                            ![c].st = [scan.st EXCEPT !.pen = <<>>]]
                  /\ UNCHANGED cached_current_price
             ELSE /\ cached_current_price' =
                         Store(cached_current_price, <<call.from, call.to>>, entry)
                  /\ calls' = [calls EXCEPT ![c].pc = "done",
                                            ![c].st = [end EXCEPT !.pen = <<>>],
                                            ![c].res = Returned(end.price, end.oracle_queried,
                                                                end.used_main_currency),
                                            ![c].wrote = <<entry>>,
                                            ![c].finished = Finished + 1]
        /\ last' = [NoCall EXCEPT !.op = "call_answered", !.from = call.from, !.to = call.to,
                                  !.oracle = o, !.pre = PreEntry(<<call.from, call.to>>)]
        /\ UNCHANGED <<now, order_set, oracles, oracles_not_onchain, oracle_instances,
                       oracle_instances_not_onchain, provider, hist,
                       price_historian, price_history>>

ConcurrentAssets == {"NFT", "BTC"}
ConcurrentTargets == {"EUR"}
ConcurrentAnswers == {Answer(SomePrice, FALSE), Answer(SomePrice + 1, FALSE), RemoteError}

ConcurrentNext ==
    \/ TickNext({1})
    \/ ProviderNext({MANUALCURRENT}, ConcurrentAnswers)
    \/ SetOrderNext({<<COINGECKO, MANUALCURRENT>>})
    \/ \E c \in Callers, f \in ConcurrentAssets, t \in ConcurrentTargets : CallStarts(c, f, t)
    \/ \E c \in Callers : CallAnswered(c)

SpecConcurrent == Init /\ [][ConcurrentNext]_vars

-----------------------------------------------------------------------------
(* is_penalized called by threads.  The method is three statements on the  *)
(* oracle's PenaltyInfo (lines 26, 27 and 28 of penalizable_oracle.py) and *)
(* takes no lock: a thread can be preempted between two of them.           *)

\* line 26: the count is compared with the threshold
IsPenalizedTest(c, o) ==
    /\ calls[c].pc = "idle"
    /\ calls' = [calls EXCEPT ![c] =
                    [IdleCall EXCEPT !.oracle = o,
                                     !.pc = IF penalty_info[o].query_failures_count = ORACLE_PENALTY_THRESHOLD_COUNT
                                              THEN "is_penalized_27" ELSE "is_penalized_28"]]
    /\ last' = [NoCall EXCEPT !.op = "is_penalized_test", !.oracle = o, !.before = penalty_info[o]]
    /\ UNCHANGED <<now, order_set, oracles, oracles_not_onchain, oracle_instances,
                   oracle_instances_not_onchain, cached_current_price, penalty_info,
                   provider, hist, price_historian, price_history>>

\* line 27: note_failure_or_penalize on the counters as they are now
IsPenalizedNote(c) ==
    LET o == calls[c].oracle
    IN  /\ calls[c].pc = "is_penalized_27"
        /\ penalty_info' = [penalty_info EXCEPT ![o] = note_failure_or_penalize(penalty_info[o], now)]
        /\ calls' = [calls EXCEPT ![c].pc = "is_penalized_28"]
        /\ last' = [NoCall EXCEPT !.op = "is_penalized_note", !.oracle = o, !.before = penalty_info[o]]
        /\ UNCHANGED <<now, order_set, oracles, oracles_not_onchain, oracle_instances,
                       oracle_instances_not_onchain, cached_current_price,
                       provider, hist, price_historian, price_history>>

\* line 28: the result is computed from the last penalization time
IsPenalizedReturn(c) ==
    LET o == calls[c].oracle
        result == now - penalty_info[o].last_penalized_ts <= ORACLE_PENALTY_TS
    IN  /\ calls[c].pc = "is_penalized_28"
        /\ calls' = [calls EXCEPT ![c].pc = "idle", ![c].result = result]
        /\ last' = [NoCall EXCEPT !.op = "is_penalized_return", !.oracle = o,
                                  !.before = penalty_info[o], !.flag = result]
        /\ UNCHANGED <<now, order_set, oracles, oracles_not_onchain, oracle_instances,
                       oracle_instances_not_onchain, cached_current_price, penalty_info,
                       provider, hist, price_historian, price_history>>

RaceNext ==
    \/ TickNext({1, PenaltyStep})
    \/ NoteFailure(COINGECKO)
    \/ \E c \in Callers : IsPenalizedTest(c, COINGECKO)
    \/ \E c \in Callers : IsPenalizedNote(c)
    \/ \E c \in Callers : IsPenalizedReturn(c)

SpecRace == Init /\ [][RaceNext]_vars

\* The result of the loop: two oracles in both orders whose providers answer
\* a price or zero, with either flag, or fail; an asset with oracles and one
\* without.
TripleOrders == {<<COINGECKO, MANUALCURRENT>>, <<MANUALCURRENT, COINGECKO>>}
TripleAnswers == {Answer(ZERO_PRICE, TRUE), Answer(SomePrice, TRUE), Answer(SomePrice, FALSE),
                  RemoteError}

TripleNext ==
    \/ TickNext({1})
    \/ ProviderNext({COINGECKO, MANUALCURRENT}, TripleAnswers)
    \/ SetOrderNext(TripleOrders)
    \/ NoteFailure(COINGECKO)
    \/ FindPriceAddOracleNext({"NFT", "BTC"}, {"EUR"}, {FALSE})

SpecTriple == Init /\ [][TripleNext]_vars

\* The penalty tracker on a machine whose clock stands near the epoch:
\* ts_now() is the system time, which starts at 0.
EpochClocks == {1, ORACLE_PENALTY_TS, ORACLE_PENALTY_TS + 1}

InitEpoch ==
    /\ now \in EpochClocks
    /\ order_set = FALSE
    /\ oracles = <<>>
    /\ oracles_not_onchain = <<>>
    /\ oracle_instances = <<>>
    /\ oracle_instances_not_onchain = <<>>
    /\ cached_current_price = <<>>
    /\ penalty_info = [o \in PenalizablePriceOracleMixin |-> PenaltyInfo(0, 0)]
    /\ provider = [o \in CurrentPriceOracleInstance |-> Answer(ZERO_PRICE, FALSE)]
    /\ hist = [o \in PenalizablePriceOracleMixin |-> Fresh]
    /\ price_historian = [instance |-> <<>>, mangled_instance |-> <<>>, oracles |-> <<>>]
    /\ price_history = {}
    /\ calls = [c \in Callers |-> IdleCall]
    /\ last = NoCall

EpochNext ==
    \/ ProviderNext({COINGECKO}, {Answer(SomePrice, FALSE), RateLimited})
    \/ SetOrderNext({<<COINGECKO, MANUALCURRENT>>})
    \/ NoteFailure(COINGECKO)
    \/ IsPenalized(COINGECKO)
    \/ IsPenalized(CRYPTOCOMPARE)

SpecEpoch == InitEpoch /\ [][EpochNext]_vars

\* A request and its repetition: an asset without oracles, a manual oracle
\* that answers with either flag, answers zero or fails, and a clock that
\* passes the lifetime of an entry.
RepeatAnswers == {Answer(SomePrice, FALSE), Answer(SomePrice, TRUE), Answer(ZERO_PRICE, TRUE),
                  RemoteError}

RepeatNext ==
    \/ TickNext({1, CacheStep})
    \/ ProviderNext({MANUALCURRENT}, RepeatAnswers)
    \/ SetOrderNext({<<COINGECKO, MANUALCURRENT>>})
    \/ FindPriceAddOracleNext({"NFT"}, {"EUR", "BTC"}, {FALSE})

SpecRepeat == Init /\ [][RepeatNext]_vars

\* Assets without oracles under orders that put other oracles, on-chain ones
\* among them, before the manual one: every oracle answers, fails or, for the
\* manual one, raises RecursionError, and the calls take every combination of
\* skip_onchain and coming_from_latest_price.
ManualOnlyOrders == {<<COINGECKO, MANUALCURRENT>>, <<UNISWAPV2, COINGECKO>>}
ManualOnlyAnswers == {Answer(SomePrice, FALSE), Answer(ZERO_PRICE, FALSE), RemoteError}

ManualOnlyNext ==
    \/ TickNext({1})
    \/ ProviderNext({MANUALCURRENT}, ManualOnlyAnswers \cup {RateLimited, RecursionError})
    \/ ProviderNext({COINGECKO, UNISWAPV2}, {Answer(SomePrice, FALSE)})
    \/ SetOrderNext(ManualOnlyOrders)
    \/ FindPriceAddOracleNext({"NFT"}, {"EUR"}, BOOLEAN)
    \/ FindPriceNext({"NFT"}, {"EUR"}, BOOLEAN)

SpecManualOnly == Init /\ [][ManualOnlyNext]_vars

-----------------------------------------------------------------------------
(* Properties of the price cache *)

ResolutionOps == {"find_price", "find_price_add_oracle", "find_usd_price", "find_usd_price_and_oracle"}

LookupOps == ResolutionOps \cup {"get_cached_current_price_entry"}

LastKey == <<last.from, last.to>>

\* the entry the last operation found under its key when it started
PreAge == now - last.pre[1].time

\* the last operation was a resolution call that consulted the cache
ConsultedCache ==
    /\ last.op \in ResolutionOps
    /\ ~last.ignore_cache
    /\ last.from # last.to
    /\ ~(last.op \in {"find_usd_price", "find_usd_price_and_oracle"} /\ last.from = A_USD)

\* C2: no lookup returns an entry older than CURRENT_PRICE_CACHE_SECS, whatever
\* the pair and the clock; an entry of age exactly CURRENT_PRICE_CACHE_SECS whose
\* flag matches is returned, by the lookup and by the resolution calls that
\* consult the cache.
C2_CacheTTL ==
    /\ \A k \in Pairs, m \in BOOLEAN :
         LET c == get_cached_current_price_entry(cached_current_price, now, k, m)
         IN  /\ c # <<>> => now - c[1].time <= CURRENT_PRICE_CACHE_SECS
             /\ ( /\ k \in DOMAIN cached_current_price
                  /\ now - cached_current_price[k].time = CURRENT_PRICE_CACHE_SECS
                  /\ cached_current_price[k].used_main_currency = m )
                => c = <<cached_current_price[k]>>
    /\ (last.op \in LookupOps /\ last.hit) =>
         /\ last.pre # <<>>
         /\ PreAge <= CURRENT_PRICE_CACHE_SECS
         /\ last.res.price = last.pre[1].price
    /\ ( /\ ConsultedCache \/ last.op = "get_cached_current_price_entry"
         /\ last.pre # <<>>
         /\ PreAge = CURRENT_PRICE_CACHE_SECS
         /\ last.pre[1].used_main_currency = last.match_main_currency )
       => last.hit

C2_Witness ==
    /\ last.op \in ResolutionOps
    /\ last.hit
    /\ PreAge = CURRENT_PRICE_CACHE_SECS

\* the engine state with a fresh entry for (a, USD) whose flag is m
WithUsdEntry(a, m) ==
    [Engine EXCEPT !.cache = Store(cached_current_price, <<a, A_USD>>,
                                   CachedPriceEntry(SomePrice, now, COINGECKO, m))]

\* C3: a resolution call with ignore_cache = true for a pair with from # to is
\* never answered by the cache, also when a fresh entry with the requested flag
\* is there; where the generic loop answers, the entry is stamped anew.  On the
\* USD path a fresh entry for (a, USD) answers the call exactly when
\* ignore_cache is false.
C3_IgnoreCacheBypasses ==
    /\ (last.op \in ResolutionOps /\ last.ignore_cache /\ last.from # last.to) =>
          /\ ~last.hit
          /\ ( /\ last.res.outcome = "return"
               /\ last.to # A_USD )
             => /\ LastKey \in DOMAIN cached_current_price
                /\ cached_current_price[LastKey].time = now
                /\ cached_current_price[LastKey].price = last.res.price
    /\ \A a \in CallAssets \ {A_USD}, m \in BOOLEAN :
          /\ ~find_usd_price_impl(WithUsdEntry(a, m), a, TRUE, FALSE, FALSE, m).hit
          /\ find_usd_price_impl(WithUsdEntry(a, m), a, FALSE, FALSE, FALSE, m).hit
          /\ ~find_price_impl(WithUsdEntry(a, m), a, A_USD, TRUE, FALSE, FALSE, m).hit

C3_Witness ==
    /\ last.op \in ResolutionOps
    /\ last.ignore_cache
    /\ last.pre # <<>>
    /\ PreAge <= CURRENT_PRICE_CACHE_SECS
    /\ PreAge > 0
    /\ last.pre[1].used_main_currency = last.match_main_currency
    /\ last.queried # <<>>
    /\ last.res.price # last.pre[1].price

\* C4: an entry stored with used_main_currency = b answers only requests whose
\* match_main_currency flag is b; for the other flag the lookup is a miss.
C4_FlagIsolation ==
    /\ \A k \in DOMAIN cached_current_price, m \in BOOLEAN :
         cached_current_price[k].used_main_currency # m
         => get_cached_current_price_entry(cached_current_price, now, k, m) = <<>>
    /\ (last.op \in LookupOps /\ last.hit) =>
         /\ last.pre # <<>>
         /\ last.pre[1].used_main_currency = last.match_main_currency
         /\ last.res.used_main_currency = last.match_main_currency \/ last.res.oracle = "none"
    /\ ( /\ last.op \in LookupOps
         /\ last.pre # <<>>
         /\ last.pre[1].used_main_currency # last.match_main_currency )
       => ~last.hit

C4_Witness ==
    /\ last.op \in ResolutionOps
    /\ ~last.ignore_cache
    /\ last.pre # <<>>
    /\ PreAge <= CURRENT_PRICE_CACHE_SECS
    /\ last.pre[1].used_main_currency
    /\ ~last.match_main_currency
    /\ ~last.hit
    /\ last.queried # <<>>

\* C5: a resolution of an asset against itself returns 1 without reading or
\* writing the cache, without invoking an oracle and without touching the
\* penalty state, whatever the flags.
C5_Identity ==
    [][(last'.op \in ResolutionOps /\ last'.from = last'.to) =>
          /\ last'.res.outcome = "return"
          /\ last'.res.price = ONE
          /\ ~last'.hit
          /\ last'.queried = <<>>
          /\ cached_current_price' = cached_current_price
          /\ penalty_info' = penalty_info]_vars

C5_Witness ==
    /\ last.op = "find_price"
    /\ last.from = last.to
    /\ last.from # A_USD
    /\ last.res.price = ONE
    /\ DOMAIN cached_current_price # {}

\* the generic loop answered the last call
LoopAnswered ==
    /\ last.op \in ResolutionOps
    /\ last.res.outcome = "return"
    /\ ~last.hit
    /\ last.from # last.to
    /\ last.to # A_USD

\* the entry the generic loop writes when it finishes
LoopWrites ==
    LoopAnswered =>
        /\ LastKey \in DOMAIN cached_current_price
        /\ cached_current_price[LastKey].price = last.res.price
        /\ cached_current_price[LastKey].time = now
        /\ last.op = "find_price_add_oracle" =>
             cached_current_price[LastKey] =
                 CachedPriceEntry(last.res.price, now, last.res.oracle, last.res.used_main_currency)

\* C10 as stated: the loop always writes the entry, and a repeat request with
\* the default flag within the TTL gets a cached zero price from the cache.
C10_Original ==
    /\ LoopWrites
    /\ ( /\ ConsultedCache
         /\ ~last.match_main_currency
         /\ last.pre # <<>>
         /\ last.pre[1].price = ZERO_PRICE
         /\ PreAge <= CURRENT_PRICE_CACHE_SECS )
       => (last.hit /\ last.res.price = ZERO_PRICE /\ last.queried = <<>>)

\* C10 amended: the loop always writes the entry, with the flag the last
\* answering oracle reported (false when none answered); a repeat request
\* within the TTL whose flag equals the stored flag gets the cached price, zero
\* included, without invoking an oracle.
C10_ZeroPriceCached ==
    /\ LoopWrites
    /\ (LoopAnswered /\ \A i \in 1..Len(last.queried) : provider[last.queried[i]].kind # "price")
       => ~cached_current_price[LastKey].used_main_currency
    /\ ( /\ ConsultedCache
         /\ last.pre # <<>>
         /\ last.pre[1].used_main_currency = last.match_main_currency
         /\ PreAge <= CURRENT_PRICE_CACHE_SECS )
       => (last.hit /\ last.res.price = last.pre[1].price /\ last.queried = <<>>)

C10_Witness ==
    /\ ConsultedCache
    /\ ~last.match_main_currency
    /\ last.hit
    /\ last.pre[1].price = ZERO_PRICE
    /\ last.pre[1].oracle = BLOCKCHAIN
    /\ PreAge > 0

-----------------------------------------------------------------------------
(* Properties of the oracle chain *)

Penalized(o) == o \in PenalizablePriceOracleMixin /\ is_penalized(penalty_info[o], now).result

Skipped(o) == provider[o].kind = "rate_limited" \/ Penalized(o)

Answers(o) == ~Skipped(o) /\ provider[o].kind = "price" /\ provider[o].price # ZERO_PRICE

\* the loop gets as far as position k of the configured order
ReachedAt(k) == \A j \in 1..(k - 1) : ~Answers(oracles[j])

\* the oracles up to position k that are not skipped, in order
RECURSIVE AskedUpTo(_)
AskedUpTo(k) ==
    IF k = 0 THEN <<>>
    ELSE IF Skipped(oracles[k]) THEN AskedUpTo(k - 1)
    ELSE Append(AskedUpTo(k - 1), oracles[k])

\* the last step resolved an asset with oracles through the configured order
ChainCall ==
    /\ last.op = "find_price_add_oracle"
    /\ ~last.hit
    /\ last.from # last.to
    /\ last.to # A_USD
    /\ is_asset_with_oracles(last.from)
    /\ order_set

\* C1: on a cache miss the call returns the price of the first oracle of the
\* configured order that is not skipped and answers a non-zero price, tagged
\* with that oracle, and invokes no oracle after it.
C1_FallbackOrder ==
    ChainCall =>
        \A k \in 1..Len(oracles) :
            (ReachedAt(k) /\ Answers(oracles[k])) =>
                /\ last.res = Returned(provider[oracles[k]].price, oracles[k],
                                       provider[oracles[k]].used_main_currency)
                /\ last.queried = AskedUpTo(k)

\* C6: inside its penalty window an oracle is not queried by the loop,
\* wherever it stands in the order; once more than ORACLE_PENALTY_TS seconds
\* have passed since the stamp, the loop queries it again when it gets to it.
C6_PenaltyWindow ==
    ChainCall =>
        \A k \in 1..Len(oracles) :
            LET o == oracles[k]
            IN  o \in PenalizablePriceOracleMixin =>
                  /\ Penalized(o) => \A i \in 1..Len(last.queried) : last.queried[i] # o
                  /\ ( /\ penalty_info[o].last_penalized_ts # 0
                       /\ ~Skipped(o)
                       /\ ReachedAt(k) )
                     => \E i \in 1..Len(last.queried) : last.queried[i] = o

-----------------------------------------------------------------------------
(* Properties of the penalty tracker *)

LastInfo == penalty_info[last.oracle]

\* C7 as stated: the failure record that brings the count to the threshold
\* resets the count and stamps the current time.
C7_Original ==
    ( /\ last.op = "note_failure_or_penalize"
      /\ last.before.query_failures_count = ORACLE_PENALTY_THRESHOLD_COUNT - 1 )
    => LastInfo = PenaltyInfo(now, 0)

\* C7 amended: a failure record made while the count is below the threshold
\* adds one to the count and leaves the stamp alone, so the fifth record
\* leaves the count at 5; the record made when the count is already 5 resets
\* it to zero and stamps the time of that call.
C7_RecordFailure ==
    last.op = "note_failure_or_penalize" =>
        IF last.before.query_failures_count < ORACLE_PENALTY_THRESHOLD_COUNT
          THEN LastInfo = PenaltyInfo(last.before.last_penalized_ts,
                                      last.before.query_failures_count + 1)
          ELSE LastInfo = PenaltyInfo(now, 0)

C7_Witness ==
    /\ last.op = "note_failure_or_penalize"
    /\ last.before.query_failures_count = ORACLE_PENALTY_THRESHOLD_COUNT
    /\ LastInfo = PenaltyInfo(now, 0)
    /\ now > StartTime

\* C8: is_penalized answers true exactly when the time since the stamp it
\* leaves is at most ORACLE_PENALTY_TS, the bound included; the stamp it
\* reads is the stored one unless the count stood at the threshold.
C8_IsPenalized ==
    last.op = "is_penalized" =>
        /\ last.flag = (now - LastInfo.last_penalized_ts <= ORACLE_PENALTY_TS)
        /\ last.before.query_failures_count # ORACLE_PENALTY_THRESHOLD_COUNT
           => LastInfo = last.before

C8_Witness ==
    /\ last.op = "is_penalized"
    /\ last.flag
    /\ now - LastInfo.last_penalized_ts = ORACLE_PENALTY_TS
    /\ LastInfo = last.before

\* C9 as stated: an oracle is penalized only after 5 failures in a row.
C9_Original ==
    \A o \in PenalizablePriceOracleMixin :
        penalty_info[o].last_penalized_ts # 0 => hist[o].max_streak >= ORACLE_PENALTY_THRESHOLD_COUNT

\* C9 amended: the count is the number of failure records since the last
\* stamp; a successful query leaves it as it is, so an oracle is penalized
\* after 5 failure records in all, in a row or not, and never before.
C9_FailuresAccumulate ==
    /\ \A o \in PenalizablePriceOracleMixin :
         /\ penalty_info[o].last_penalized_ts # 0 => hist[o].failures >= ORACLE_PENALTY_THRESHOLD_COUNT
         /\ penalty_info[o].last_penalized_ts = 0 => penalty_info[o].query_failures_count = hist[o].failures
    /\ last.op = "query_succeeded" => LastInfo = last.before

C9_Witness ==
    /\ penalty_info[COINGECKO].last_penalized_ts # 0
    /\ hist[COINGECKO].max_streak < ORACLE_PENALTY_THRESHOLD_COUNT
    /\ hist[COINGECKO].failures = ORACLE_PENALTY_THRESHOLD_COUNT

-----------------------------------------------------------------------------
(* Properties of the oracle registry *)

Registry == <<order_set, oracles, oracles_not_onchain, oracle_instances,
              oracle_instances_not_onchain>>

\* C11: no resolution call changes the configured order, its off-chain
\* sub-order or the instance lists, whatever oracles are rate-limited,
\* penalized or failing; a step that changes any of them is a
\* set_oracles_order with a valid order.
C11_SkippingIsTransient ==
    [][/\ last'.op \in ResolutionOps => Registry' = Registry
       /\ Registry' # Registry =>
             (last'.op = "set_oracles_order" /\ last'.res.outcome = "return")]_vars

C11_Witness ==
    /\ last.op \in ResolutionOps
    /\ last.from = "NFT"
    /\ last.res.outcome = "return"
    /\ last.queried = <<>>
    /\ ~last.hit
    /\ oracles = <<UNISWAPV2, COINGECKO, MANUALCURRENT>>
    /\ oracles_not_onchain = <<COINGECKO, MANUALCURRENT>>
    /\ provider[MANUALCURRENT] = RateLimited
    /\ provider[COINGECKO] = RemoteError
    /\ Penalized(COINGECKO)

\* the oracles the loop of lines 301-341 invokes when it runs over the zipped lists
Invoked(ids, instances) ==
    LoopFrom(Zip(ids, instances), 1, LoopStart(penalty_info), now, provider, FALSE).queried

NotInvoked(o, queried) == \A i \in 1..Len(queried) : queried[i] # o

\* C12: an oracle that reports having been rate-limited is not queried, penalized
\* or not, and a penalized oracle is not queried, rate-limited or not: by the
\* resolution calls, and by the loop run over the configured lists in every
\* state.
C12_IndependentSkipConditions ==
    /\ last.op \in ResolutionOps =>
          \A o \in CurrentPriceOracleInstance :
              (provider[o].kind = "rate_limited" \/ Penalized(o)) => NotInvoked(o, last.queried)
    /\ \A o \in CurrentPriceOracleInstance :
          (provider[o].kind = "rate_limited" \/ Penalized(o)) =>
              /\ NotInvoked(o, Invoked(oracles, oracle_instances))
              /\ NotInvoked(o, Invoked(oracles_not_onchain, oracle_instances_not_onchain))
              /\ NotInvoked(o, Invoked(<<o>>, <<OracleInstance(o)>>))

C12_Witness ==
    /\ last.op \in ResolutionOps
    /\ last.from = "NFT"
    /\ last.to = "EUR"
    /\ ~last.hit
    /\ last.res = Returned(ZERO_PRICE, BLOCKCHAIN, FALSE) \/ last.res = Returned(ZERO_PRICE, "none", FALSE)
    /\ last.queried = <<>>
    /\ provider[MANUALCURRENT] = RateLimited
    /\ provider[COINGECKO] = Answer(SomePrice, FALSE)
    /\ Penalized(COINGECKO)
    /\ oracles = <<MANUALCURRENT, UNISWAPV3, COINGECKO, UNISWAPV2>>
    /\ Invoked(oracles, oracle_instances) = <<UNISWAPV3, UNISWAPV2>>

\* the last step was a set_oracles_order call with an empty list or a repeated id
InvalidOrderGiven == last.op = "set_oracles_order" /\ ~ValidOrder(last.queried)

\* every order ever active is non-empty with unique members
ActiveOrderValid == order_set => ValidOrder(oracles)

\* C13: set_oracles_order with an empty list or a list with a repeated id
\* fails with InvalidConfiguration, and every active order is non-empty with
\* unique members.
C13_InvalidOrderRejected ==
    /\ InvalidOrderGiven => last.res.outcome = "InvalidConfiguration"
    /\ ActiveOrderValid

\* what holds of the rejection: the call raises and the order, its off-chain
\* sub-order and the instance lists stay as they were
RejectionLeavesOrder ==
    [][(last'.op = "set_oracles_order" /\ ~ValidOrder(last'.queried)) =>
          (last'.res.outcome # "return" /\ Registry' = Registry)]_vars

\* the place of x in a list without repetitions
Position(xs, x) == CHOOSE i \in 1..Len(xs) : xs[i] = x

Members(xs) == {xs[i] : i \in 1..Len(xs)}

\* ys is xs with the on-chain ids deleted, in the same relative order
IsOffchainSubsequence(ys, xs) ==
    /\ Members(ys) = {x \in Members(xs) : x \notin {UNISWAPV2, UNISWAPV3}}
    /\ Len(ys) = Cardinality(Members(ys))
    /\ \A i \in 1..Len(ys), j \in 1..Len(ys) :
          i < j => Position(xs, ys[i]) < Position(xs, ys[j])

\* the instance at every position is the one the attribute of the id at that
\* position holds
Aligned(ids, instances) ==
    /\ Len(instances) = Len(ids)
    /\ \A i \in 1..Len(ids) : instances[i] = OracleInstance(ids[i])

\* C14: once an order is set, and after every later set_oracles_order, the
\* off-chain sub-order is the configured order with UNISWAPV2 and UNISWAPV3
\* deleted, in the same relative order, both instance lists are aligned with
\* their id lists, and a successful call installs the order it was given.
C14_OffchainSuborder ==
    /\ order_set =>
          /\ IsOffchainSubsequence(oracles_not_onchain, oracles)
          /\ Aligned(oracles, oracle_instances)
          /\ Aligned(oracles_not_onchain, oracle_instances_not_onchain)
    /\ (last.op = "set_oracles_order" /\ last.res.outcome = "return") =>
          (order_set /\ oracles = last.queried)

C14_Witness ==
    /\ last.op = "set_oracles_order"
    /\ last.res.outcome = "return"
    /\ oracles = <<MANUALCURRENT, UNISWAPV3, COINGECKO, UNISWAPV2>>
    /\ oracles_not_onchain = <<MANUALCURRENT, COINGECKO>>
    /\ oracle_instances_not_onchain = <<OracleInstance(MANUALCURRENT), OracleInstance(COINGECKO)>>
    /\ \E k \in DOMAIN cached_current_price : cached_current_price[k].oracle = MANUALCURRENT

-----------------------------------------------------------------------------
(* Properties of the calls made before an order is set and of the special cases *)

\* the last step was a resolution call made while no order was set
BeforeOrder == last.op \in ResolutionOps /\ ~order_set

\* C15 as stated: every resolution call made before an order is set fails
\* with the precondition error and returns no price.
C15_Original == BeforeOrder => last.res.outcome = "AssertionError"

\* C15 amended: before an order is set a call whose target is not USD and
\* differs from the source fails with the precondition error; the only calls
\* that return a price are those for an asset against itself and those for
\* USD of an asset that is unknown or KFEE; no call invokes an oracle or writes
\* the cache.
C15_FailFast ==
    BeforeOrder =>
        /\ (last.from # last.to /\ last.to # A_USD) => last.res.outcome = "AssertionError"
        /\ last.res.outcome = "return" =>
              \/ last.from = last.to
              \/ last.to = A_USD /\ (AssetKind(last.from) = "unknown" \/ last.from = A_KFEE)
        /\ last.queried = <<>>
        /\ ~last.hit
        /\ DOMAIN cached_current_price = {}

C15_Witness ==
    /\ BeforeOrder
    /\ last.from = "NFT"
    /\ last.to = "EUR"
    /\ last.res.outcome = "AssertionError"
    /\ provider[MANUALCURRENT] = Answer(SomePrice, FALSE)
    /\ now > StartTime

-----------------------------------------------------------------------------
(* Properties of skip_onchain; every call of SpecOffchain sets the flag *)

Onchain == {UNISWAPV2, UNISWAPV3}

NoOnchain(queried) == \A i \in 1..Len(queried) : queried[i] \notin Onchain

\* C16: a resolution call made with skip_onchain = true invokes neither
\* UNISWAPV2 nor UNISWAPV3, whatever the target, USD included; and the lists
\* the flag selects hold no on-chain oracle, so the loop run over them in any
\* state invokes none.
C16_SkipOnchain ==
    /\ last.op \in ResolutionOps => NoOnchain(last.queried)
    /\ NoOnchain(oracles_not_onchain)
    /\ NoOnchain(Invoked(oracles_not_onchain, oracle_instances_not_onchain))

C16_Witness ==
    /\ last.op \in ResolutionOps
    /\ last.from = "BTC"
    /\ last.to = A_USD
    /\ ~last.hit
    /\ oracles = <<UNISWAPV2, MANUALCURRENT, UNISWAPV3>>
    /\ provider[UNISWAPV2] = Answer(SomePrice, FALSE)
    /\ Invoked(oracles, oracle_instances) = <<UNISWAPV2>>
    /\ Invoked(oracles_not_onchain, oracle_instances_not_onchain) = <<MANUALCURRENT>>

-----------------------------------------------------------------------------
(* Properties of failing providers *)

ProviderFailures == {"RemoteError", "PriceQueryUnsupportedAsset", "DefiPoolError"}

\* the oracle at position k is reached, is not skipped and its query raises a
\* provider-level failure
FailsAt(k) ==
    /\ ReachedAt(k)
    /\ ~Skipped(oracles[k])
    /\ provider[oracles[k]].kind \in ProviderFailures

\* C17: when the query of an oracle of the configured order raises
\* RemoteError, PriceQueryUnsupportedAsset or DefiPoolError, the call still
\* returns, the failing oracle and every oracle the loop reaches after it have
\* been asked in order, and when no oracle answers a non-zero price the call
\* returns the zero price.
C17_FailuresAbsorbed ==
    (ChainCall /\ \E k \in 1..Len(oracles) : FailsAt(k)) =>
        /\ last.res.outcome = "return"
        /\ \A k \in 1..Len(oracles) :
              (ReachedAt(k) /\ ~Skipped(oracles[k])) =>
                  \E i \in 1..Len(last.queried) : last.queried[i] = oracles[k]
        /\ (\A k \in 1..Len(oracles) : ~Answers(oracles[k])) => last.res.price = ZERO_PRICE

\* the loop that runs for an asset without oracles absorbs the failure of the
\* manual oracle
ManualFailureAbsorbed ==
    ( /\ last.op = "find_price_add_oracle"
      /\ ~is_asset_with_oracles(last.from)
      /\ AssetKind(last.from) # "unknown"
      /\ last.from # last.to /\ last.to # A_USD /\ ~last.hit /\ order_set
      /\ provider[MANUALCURRENT].kind \in ProviderFailures )
    => (last.res = Returned(ZERO_PRICE, BLOCKCHAIN, FALSE) /\ last.queried = <<MANUALCURRENT>>)

-----------------------------------------------------------------------------
(* Properties of the special cases *)

\* find_price(USD, to) with the flags of the last call, in the state it left
UsdPriceIn(to_asset) ==
    find_price_impl(Engine, A_USD, to_asset, last.ignore_cache, FALSE, FALSE,
                    last.match_main_currency).res

\* C18: find_price(KFEE, USD) is 0.01, and for any other target X
\* find_price(KFEE, X) returns 0.01 * find_price(USD, X).
C18_KfeePrice ==
    (last.op \in ResolutionOps /\ last.from = A_KFEE /\ last.to # A_KFEE /\ order_set) =>
        /\ last.res.outcome = "return"
        /\ IF last.to = A_USD
             THEN last.res.price = KFEE_USD_PRICE
             ELSE /\ UsdPriceIn(last.to).outcome = "return"
                  /\ last.res.price * ONE = KFEE_USD_PRICE * UsdPriceIn(last.to).price

\* what holds of KFEE: its USD price is the constant, with no oracle invoked
\* and no cache entry written, whatever the oracles answer
KfeeUsdConstant ==
    (last.op \in ResolutionOps /\ last.from = A_KFEE /\ last.to = A_USD) =>
        /\ last.res.outcome = "return"
        /\ last.res.price = KFEE_USD_PRICE
        /\ last.queried = <<>>
        /\ <<A_KFEE, A_USD>> \notin DOMAIN cached_current_price

SpecialCased == {A_KFEE, A_BSQ, "CRV", "LPT"}

\* C19: after a USD resolution of a special-cased asset that the cache did
\* not answer, the call has returned and the cache holds an entry for
\* (asset, USD) with the returned price, which a repeat request gets.
C19_SpecialCasesCached ==
    ( /\ last.op \in ResolutionOps
      /\ last.from \in SpecialCased
      /\ last.to = A_USD
      /\ ~last.hit )
    => /\ last.res.outcome = "return"
       /\ LastKey \in DOMAIN cached_current_price
       /\ cached_current_price[LastKey].price = last.res.price
       /\ get_cached_current_price_entry(cached_current_price, now, LastKey, FALSE) # <<>>

-----------------------------------------------------------------------------
(* Properties of looping manual prices; every call of SpecCycle is top-level *)

\* the last call got as far as the manual oracle while it raised RecursionError
CycleDetected ==
    /\ last.op \in ResolutionOps
    /\ ~last.hit
    /\ last.from # last.to
    /\ last.to # A_USD
    /\ order_set
    /\ provider[MANUALCURRENT].kind = "RecursionError"
    /\ is_asset_with_oracles(last.from) =>
          \E k \in 1..Len(oracles) : oracles[k] = MANUALCURRENT /\ ReachedAt(k)

\* the oracles of the order that stand after the manual oracle
AfterManual ==
    IF is_asset_with_oracles(last.from)
      THEN {oracles[k] : k \in {j \in 1..Len(oracles) : j > Position(oracles, MANUALCURRENT)}}
      ELSE {}

\* C20: a top-level call that detects a cycle returns, has sent exactly one
\* warning, has gone on to the oracles after the manual one, and returns the
\* price of the first of them that answers, or the zero price.
C20_TopLevelCycle ==
    CycleDetected =>
        /\ last.res.outcome = "return"
        /\ last.warnings = 1
        /\ \A o \in AfterManual : ~Skipped(o) => ~NotInvoked(o, last.queried)
        /\ IF \E o \in AfterManual : Answers(o)
             THEN \E o \in AfterManual : Answers(o) /\ last.res.price = provider[o].price
             ELSE last.res.price = ZERO_PRICE

\* for an asset without oracles the cycle is handled as C20 says
CycleHandledWithoutOracles ==
    (CycleDetected /\ ~is_asset_with_oracles(last.from)) =>
        /\ last.res.price = ZERO_PRICE
        /\ last.res.outcome = "return"
        /\ last.warnings = 1
        /\ last.queried = <<MANUALCURRENT>>

-----------------------------------------------------------------------------
(* Properties of a cycle met by a nested call; every call of SpecNested is nested *)

\* the loop of a nested call run over the zipped lists in the current state
NestedLoop(ids, instances) ==
    LoopFrom(Zip(ids, instances), 1, LoopStart(penalty_info), now, provider, TRUE)

\* the loop stops with the cycle error at the oracle that raised it, having
\* sent no warning
RaisesAtCycle(end) ==
    IF \E i \in 1..Len(end.queried) : provider[end.queried[i]].kind = "RecursionError"
      THEN /\ end.stop = "raise"
           /\ end.warnings = 0
           /\ provider[end.queried[Len(end.queried)]].kind = "RecursionError"
           /\ \A i \in 1..(Len(end.queried) - 1) :
                 provider[end.queried[i]].kind # "RecursionError"
      ELSE end.stop # "raise"

\* C21: a nested call whose loop gets RecursionError from an oracle raises
\* that error to its caller, asks no oracle after the one that raised, sends
\* no warning and leaves the cache entry of its pair as it was; the loop run
\* over the configured lists does the same in every state.
C21_NestedCycle ==
    /\ ( /\ last.op \in ResolutionOps
         /\ \E i \in 1..Len(last.queried) : provider[last.queried[i]].kind = "RecursionError" )
       => /\ last.res.outcome = "RecursionError"
          /\ last.warnings = 0
          /\ provider[last.queried[Len(last.queried)]].kind = "RecursionError"
          /\ PreEntry(LastKey) = last.pre
    /\ (last.op \in ResolutionOps /\ last.res.outcome = "RecursionError") =>
          \E i \in 1..Len(last.queried) : provider[last.queried[i]].kind = "RecursionError"
    /\ RaisesAtCycle(NestedLoop(oracles, oracle_instances))
    /\ RaisesAtCycle(NestedLoop(oracles_not_onchain, oracle_instances_not_onchain))

C21_Witness ==
    /\ last.op = "find_price_add_oracle"
    /\ last.res.outcome = "RecursionError"
    /\ last.queried = <<MANUALCURRENT>>
    /\ last.pre # <<>>
    /\ last.pre[1].time < now
    /\ PreEntry(LastKey) = last.pre
    /\ oracles = <<MANUALCURRENT, COINGECKO>>
    /\ provider[COINGECKO] = Answer(SomePrice, FALSE)
    /\ NestedLoop(oracles, oracle_instances).queried = <<MANUALCURRENT>>

-----------------------------------------------------------------------------
(* Properties of cache invalidation *)

\* the assets a list of pairs names
AssetsOf(pairs) == {p[1] : p \in pairs} \cup {p[2] : p \in pairs}

\* the entries under the keys of keep are what they were and no other key is left
Keeps(keep) ==
    /\ DOMAIN cached_current_price' = keep
    /\ \A k \in keep : cached_current_price'[k] = cached_current_price[k]

\* C22: remove_cache_prices_for_asset removes the entries whose key has one of
\* the given assets in either position and leaves every other entry as it
\* was; remove_cached_current_price_entry removes the entry of the given key
\* and leaves every other entry as it was.
C22_CacheInvalidation ==
    [][/\ last'.op = "remove_cache_prices_for_asset" =>
             Keeps({k \in DOMAIN cached_current_price :
                      /\ k[1] \notin AssetsOf(last'.pairs_to_invalidate)
                      /\ k[2] \notin AssetsOf(last'.pairs_to_invalidate)})
       /\ last'.op = "remove_cached_current_price_entry" =>
             Keeps(DOMAIN cached_current_price \ {<<last'.from, last'.to>>})]_vars

C22_Witness ==
    /\ last.op = "remove_cache_prices_for_asset"
    /\ last.pairs_to_invalidate = {<<"EUR", "KFEE">>}
    /\ last.popped = 2
    /\ DOMAIN cached_current_price = {<<"NFT", "BTC">>}
    /\ cached_current_price[<<"NFT", "BTC">>].time < now

-----------------------------------------------------------------------------
(* Properties of the USD path *)

\* the last step asked for the USD price of an asset that does not resolve
UnresolvableAsked ==
    /\ last.op \in ResolutionOps
    /\ AssetKind(last.from) = "unknown"
    /\ last.to = A_USD

\* C23: a call for the USD price of an asset that does not resolve, which the
\* cache does not answer, returns the zero price, raises nothing, invokes no
\* oracle and leaves the cache as it was, with or without an order set; a
\* fresh entry with the requested flag answers it instead.
C23_UnresolvableAsset ==
    /\ (UnresolvableAsked /\ ~last.hit) =>
          /\ last.res.outcome = "return"
          /\ last.res.price = ZERO_PRICE
          /\ last.queried = <<>>
          /\ PreEntry(LastKey) = last.pre
    /\ \A m \in BOOLEAN, ignore_cache \in BOOLEAN :
          LET e == find_usd_price_impl(WithUsdEntry("UNK", m), "UNK", ignore_cache, FALSE, FALSE, ~m)
          IN  /\ ~e.hit
              /\ e.res = Returned(ZERO_PRICE, FIAT, FALSE)
              /\ e.queried = <<>>
              /\ find_usd_price_impl(WithUsdEntry("UNK", m), "UNK", FALSE, FALSE, FALSE, m).hit

C23_Witness ==
    /\ UnresolvableAsked
    /\ last.op = "find_usd_price_and_oracle"
    /\ last.res = Returned(ZERO_PRICE, FIAT, FALSE)
    /\ order_set
    /\ provider[COINGECKO] = Answer(SomePrice, FALSE)
    /\ provider[MANUALCURRENT] = Answer(SomePrice, FALSE)

\* C24: a call for the USD price of BSQ that the cache does not answer does
\* not raise: when the market-price lookup fails it sends one warning and
\* returns the price derived from the static conversion constant.
C24_BsqFallback ==
    ( /\ last.op \in ResolutionOps
      /\ last.from = A_BSQ
      /\ last.to = A_USD
      /\ ~last.hit )
    => /\ last.res.outcome = "return"
       /\ last.warnings <= 1

-----------------------------------------------------------------------------
(* Properties of historical prices *)

HistoricalAsked == last.op = "query_historical_price"

\* a recorded manual price for the pair lies within the allowed distance of the timestamp
WithinTolerance(from_asset, to_asset, timestamp) ==
    \E row \in price_history :
        /\ row.from_asset = from_asset
        /\ row.to_asset = to_asset
        /\ row.source_type = MANUAL
        /\ row.timestamp - timestamp <= max_seconds_distance
        /\ timestamp - row.timestamp <= max_seconds_distance

\* C25: a historical query of an asset against itself returns 1, a query of
\* KFEE against USD returns 0.01 at every timestamp, and a query of KFEE
\* against another asset returns 0.01 times the historical USD price of
\* that asset.
C25_HistoricalSpecialCases ==
    HistoricalAsked =>
        /\ last.from = last.to => last.res = Returned(ONE, "none", FALSE)
        /\ (last.from = A_KFEE /\ last.to = A_USD)
              => last.res = Returned(KFEE_USD_PRICE, "none", FALSE)
        /\ (last.from = A_KFEE /\ last.to \notin {A_KFEE, A_USD})
              => LET nested == query_historical_price(price_historian, A_USD, last.to, last.timestamp)
                 IN  nested.outcome = "return"
                        => last.res = Returned((KFEE_USD_PRICE * nested.price) \div ONE, "none", FALSE)

\* C26: a historical query that no special case, no configured oracle and
\* no manual price within the allowed distance answers raises
\* NoPriceForGivenTimestamp carrying the pair and the timestamp asked for.
C26_HistoricalMiss ==
    ( /\ HistoricalAsked
      /\ last.from # last.to
      /\ last.from # A_KFEE
      /\ price_historian.oracles = <<>>
      /\ ~WithinTolerance(last.from, last.to, last.timestamp) )
    => /\ last.res.outcome = "NoPriceForGivenTimestamp"
       /\ last.carried = <<last.from, last.to, last.timestamp>>

\* C27: the manual historical oracle returns a price only when a recorded
\* manual price for the pair lies within 3600 seconds of the timestamp asked
\* for, and raises NoPriceForGivenTimestamp when none does.
C27_ManualTolerance ==
    last.op = "manual.query_historical_price" =>
        /\ last.res.outcome = "return"
              => WithinTolerance(last.from, last.to, last.timestamp)
        /\ ~WithinTolerance(last.from, last.to, last.timestamp)
              => last.res.outcome = "NoPriceForGivenTimestamp"

-----------------------------------------------------------------------------
(* Properties of the order of the queries *)

\* queried holds oracles of ids in the order of ids; each was reached only
\* past oracles that were skipped, failed or answered zero, and none that was
\* not skipped is missing before it
Sequential(queried, ids) ==
    /\ Members(queried) \subseteq Members(ids)
    /\ Len(queried) = Cardinality(Members(queried))
    /\ \A a \in 1..Len(queried), b \in 1..Len(queried) :
          a < b => Position(ids, queried[a]) < Position(ids, queried[b])
    /\ \A a \in 1..Len(queried) :
          \A j \in 1..(Position(ids, queried[a]) - 1) :
              /\ ~Answers(ids[j])
              /\ ~Skipped(ids[j]) => \E b \in 1..(a - 1) : queried[b] = ids[j]

-----------------------------------------------------------------------------
(* Properties of concurrent calls *)

SamePair(c, d) == calls[c].from = calls[d].from /\ calls[c].to = calls[d].to

\* call c wrote the cache entry of its pair after every other call for that pair
LastWriter(c) ==
    /\ calls[c].wrote # <<>>
    /\ \A d \in Callers \ {c} :
          (calls[d].wrote # <<>> /\ SamePair(c, d)) => calls[d].finished < calls[c].finished

\* C29: a call that finds no entry for its pair queries the oracle itself
\* even when another call for the same pair has a query in flight; a call in
\* flight whose oracle answers is never held back by another call; and the
\* entry of the pair is the one written by the call that finished last.
C29_NoSingleFlight ==
    \A c \in Callers :
        /\ LastWriter(c) => cached_current_price[<<calls[c].from, calls[c].to>>] = calls[c].wrote[1]
        /\ InFlight(c) => ENABLED CallAnswered(c)
        /\ (calls[c].pc = "done" /\ calls[c].miss /\ calls[c].res.outcome = "return"
              /\ ~is_asset_with_oracles(calls[c].from)
              /\ calls[c].res.price # ZERO_PRICE)
              => /\ calls[c].st.queried = <<MANUALCURRENT>>
                 /\ calls[c].wrote # <<>>

C29_Witness ==
    /\ calls[1].pc = "done"
    /\ calls[2].pc = "done"
    /\ calls[1].from = "NFT"
    /\ SamePair(1, 2)
    /\ calls[1].miss
    /\ calls[2].miss
    /\ calls[2].overlapped
    /\ calls[1].st.queried = <<MANUALCURRENT>>
    /\ calls[2].st.queried = <<MANUALCURRENT>>
    /\ calls[1].wrote # calls[2].wrote
    /\ calls[2].finished < calls[1].finished
    /\ cached_current_price[<<"NFT", "EUR">>] = calls[1].wrote[1]

-----------------------------------------------------------------------------
(* Properties of the synchronization of the shared maps *)

\* thread c is between the first and the last statement of an access to the
\* penalty counters
InPenaltyAccess(c) == calls[c].pc \in {"is_penalized_27", "is_penalized_28"}

\* C30: the accesses of concurrent calls to the penalty counters of an oracle
\* go through one synchronization point: no two threads are inside an access
\* to the same counters at once, so that the failure recorded inside
\* is_penalized always finds the count at the threshold and leaves it at zero.
C30_SynchronizationDiscipline ==
    /\ \A c \in Callers, d \in Callers :
          (c # d /\ InPenaltyAccess(c) /\ InPenaltyAccess(d)) => calls[c].oracle # calls[d].oracle
    /\ last.op = "is_penalized_note" =>
          /\ last.before.query_failures_count = ORACLE_PENALTY_THRESHOLD_COUNT
          /\ penalty_info[last.oracle].query_failures_count = 0

-----------------------------------------------------------------------------
(* Properties of the penalty counters under the resolution loop *)

\* the penalty counters after the loop of lines 301-341 has run over the zipped lists
PenaltyAfterLoop(ids, instances) ==
    LoopFrom(Zip(ids, instances), 1, LoopStart(penalty_info), now, provider, FALSE).pen

\* the loop over ids changes the counters of o only when o stands at the
\* threshold, and then to a zero count stamped with the current time
ChangesOnlyAtThreshold(ids, instances) ==
    \A o \in PenalizablePriceOracleMixin :
        PenaltyAfterLoop(ids, instances)[o] # penalty_info[o] =>
            /\ o \in Members(ids)
            /\ provider[o].kind # "rate_limited"
            /\ penalty_info[o].query_failures_count = ORACLE_PENALTY_THRESHOLD_COUNT
            /\ PenaltyAfterLoop(ids, instances)[o] = PenaltyInfo(now, 0)

-----------------------------------------------------------------------------
(* Properties of the singletons *)

\* C32: once the engine or the historical resolver has been constructed with
\* its arguments, a later construction, with or without arguments, returns
\* the instance made first.
C32_Singletons ==
    /\ last.op = "Inquirer" => last.res.outcome = "return"
    /\ (last.op = "PriceHistorian" /\ last.pre # <<>>)
          => /\ last.res.outcome = "return"
             /\ last.queried = last.pre

-----------------------------------------------------------------------------
(* Properties of the result of the oracle loop *)

\* what the loop of lines 301-341 leaves when it runs over the zipped lists
LoopEnd(ids, instances) ==
    LoopFrom(Zip(ids, instances), 1, LoopStart(penalty_info), now, provider, FALSE)

\* the position of the first oracle of ids that answers a non-zero price, or Len(ids) + 1
StopAt(ids) ==
    IF \E k \in 1..Len(ids) : Answers(ids[k])
      THEN CHOOSE k \in 1..Len(ids) :
               Answers(ids[k]) /\ \A j \in 1..(k - 1) : ~Answers(ids[j])
      ELSE Len(ids) + 1

\* the positions of the oracles that were asked and answered without error
AnsweredAt(ids) ==
    {k \in 1..Len(ids) : k <= StopAt(ids) /\ ~Skipped(ids[k]) /\ provider[ids[k]].kind = "price"}

Highest(positions) == CHOOSE k \in positions : \A j \in positions : j <= k

\* the triple the claim describes for a loop over ids
ExpectedTriple(ids) ==
    [price |-> IF StopAt(ids) <= Len(ids) THEN provider[ids[StopAt(ids)]].price ELSE ZERO_PRICE,
     oracle |-> IF StopAt(ids) <= Len(ids) THEN ids[StopAt(ids)] ELSE BLOCKCHAIN,
     used_main_currency |-> IF AnsweredAt(ids) = {} THEN FALSE
                            ELSE provider[ids[Highest(AnsweredAt(ids))]].used_main_currency]

TripleOf(end) ==
    [price |-> end.price, oracle |-> end.oracle_queried, used_main_currency |-> end.used_main_currency]

\* the last step was a call that went through the oracle loop and returned
LoopReturned ==
    /\ last.op = "find_price_add_oracle"
    /\ ~last.hit
    /\ last.from # last.to
    /\ last.to # A_USD
    /\ last.res.outcome = "return"

\* C33: the loop returns the price of the oracle it stopped at tagged with
\* that oracle, or the zero price tagged BLOCKCHAIN, never a zero price with
\* an oracle tag nor a non-zero price with BLOCKCHAIN; the flag is the one
\* reported by the last oracle that answered without error, false if none
\* did; and the entry written for the pair holds the returned triple.
C33_ResultTriple ==
    /\ TripleOf(LoopEnd(oracles, oracle_instances)) = ExpectedTriple(oracles)
    /\ TripleOf(LoopEnd(oracles_not_onchain, oracle_instances_not_onchain))
          = ExpectedTriple(oracles_not_onchain)
    /\ (LoopEnd(oracles, oracle_instances).price = ZERO_PRICE)
          <=> (LoopEnd(oracles, oracle_instances).oracle_queried = BLOCKCHAIN)
    /\ LoopReturned =>
          /\ ~is_asset_with_oracles(last.from)
          /\ last.res = Returned(ExpectedTriple(<<MANUALCURRENT>>).price,
                                 ExpectedTriple(<<MANUALCURRENT>>).oracle,
                                 ExpectedTriple(<<MANUALCURRENT>>).used_main_currency)
          /\ LastKey \in DOMAIN cached_current_price
          /\ cached_current_price[LastKey] =
                CachedPriceEntry(last.res.price, now, last.res.oracle, last.res.used_main_currency)

C33_Witness ==
    /\ LoopReturned
    /\ last.res = Returned(ZERO_PRICE, BLOCKCHAIN, TRUE)
    /\ oracles = <<MANUALCURRENT, COINGECKO>>
    /\ provider[MANUALCURRENT] = Answer(ZERO_PRICE, TRUE)
    /\ provider[COINGECKO] = Answer(SomePrice, FALSE)
    /\ ~Penalized(COINGECKO)
    /\ TripleOf(LoopEnd(oracles, oracle_instances)) =
          [price |-> SomePrice, oracle |-> COINGECKO, used_main_currency |-> FALSE]

-----------------------------------------------------------------------------
(* Properties of the delegation to the primary fiat currency path *)

\* _find_price for (a, USD) and _find_usd_price for a have the same effect in state S
SameEffect(S, a) ==
    \A ic \in BOOLEAN, so \in BOOLEAN, cf \in BOOLEAN, mm \in BOOLEAN :
        find_price_impl(S, a, A_USD, ic, so, cf, mm) = find_usd_price_impl(S, a, ic, so, cf, mm)

\* C34: for every asset other than USD and every combination of the four
\* flags, resolving the asset against USD through the generic entry point has
\* in every state the effect of the USD entry point: the same result, the
\* same oracles queried, the same cache and counters afterwards, with or
\* without a fresh entry for the pair; and every find_price_add_oracle call
\* made returned what the USD entry point returns for these arguments.
C34_UsdDelegation ==
    /\ \A a \in Assets \ {A_USD} :
          /\ SameEffect(Engine, a)
          /\ \A m \in BOOLEAN : SameEffect(WithUsdEntry(a, m), a)
    /\ (last.op = "find_price_add_oracle" /\ last.to = A_USD /\ last.from # A_USD) =>
          \A so \in BOOLEAN, cf \in BOOLEAN :
              LET e == find_usd_price_impl(Engine, last.from, last.ignore_cache, so, cf,
                                           last.match_main_currency)
              IN  /\ last.res = e.res
                  /\ last.queried = e.queried
                  /\ last.hit = e.hit
                  /\ cached_current_price = e.cache
                  /\ penalty_info = e.pen

C34_Witness ==
    /\ last.op = "find_price_add_oracle"
    /\ last.from = A_KFEE
    /\ last.to = A_USD
    /\ last.ignore_cache
    /\ last.match_main_currency
    /\ last.res = Returned(KFEE_USD_PRICE, FIAT, FALSE)
    /\ order_set
    /\ provider[COINGECKO] = Answer(SomePrice, FALSE)

-----------------------------------------------------------------------------
(* Properties of an oracle without failures *)

NoRecordedFailure(o) == hist[o].failures = 0

\* C35: an oracle for which no failure was ever recorded is not reported as
\* penalized, by is_penalized or by the check just made, and the loop that
\* reaches it queries it unless it is rate-limited, whatever the clock shows.
C35_FreshNeverPenalized ==
    \A o \in PenalizablePriceOracleMixin :
        NoRecordedFailure(o) =>
            /\ penalty_info[o] = PenaltyInfo(0, 0)
            /\ ~is_penalized(penalty_info[o], now).result
            /\ (last.op = "is_penalized" /\ last.oracle = o) => ~last.flag
            /\ provider[o].kind # "rate_limited" =>
                  Invoked(<<o>>, <<OracleInstance(o)>>) = <<o>>

-----------------------------------------------------------------------------
(* Properties of a repeated request *)

\* the step repeats, with ignore_cache = false, the request of the call that
\* has just gone through the oracle loop and returned
RepeatsLoopCall ==
    /\ LoopReturned
    /\ last'.op = "find_price_add_oracle"
    /\ last'.from = last.from
    /\ last'.to = last.to
    /\ last'.match_main_currency = last.match_main_currency
    /\ ~last'.ignore_cache

\* the step is a call that consults the cache and finds an entry no older than the lifetime
FindsLiveEntry ==
    /\ last'.op = "find_price_add_oracle"
    /\ ~last'.ignore_cache
    /\ last'.from # last'.to
    /\ last'.to # A_USD
    /\ last'.pre # <<>>
    /\ now' - last'.pre[1].time <= CURRENT_PRICE_CACHE_SECS

\* C36 as stated: the repetition of a request that went through the loop is
\* answered by the cache without an oracle query, whatever flag was requested
\* and whatever flag the oracle reported.
C36_Original ==
    [][RepeatsLoopCall => (last'.hit /\ last'.queried = <<>>)]_vars

\* C36 amended: the repetition is answered by the cache, with the result of
\* the first call and without an oracle query, exactly when the flag stored
\* with the entry, which is the flag the answering oracle reported (false when
\* none answered), equals the requested match_main_currency; otherwise it
\* goes through the loop again.  The same holds for every request that finds
\* an entry within 300 seconds of its writing.
C36_RepeatServedOnFlagMatch ==
    [][/\ RepeatsLoopCall =>
             /\ last'.hit <=> (last.res.used_main_currency = last.match_main_currency)
             /\ last'.hit => (last'.queried = <<>> /\ last'.res = last.res)
             /\ ~last'.hit => cached_current_price'[<<last.from, last.to>>].time = now'
       /\ FindsLiveEntry =>
             /\ last'.hit <=> (last'.pre[1].used_main_currency = last'.match_main_currency)
             /\ last'.hit => (last'.queried = <<>> /\ last'.res.price = last'.pre[1].price)]_vars

C36_Witness ==
    /\ last.op = "find_price_add_oracle"
    /\ last.hit
    /\ last.match_main_currency
    /\ last.pre # <<>>
    /\ last.pre[1].used_main_currency
    /\ PreAge = CURRENT_PRICE_CACHE_SECS
    /\ last.queried = <<>>
    /\ provider[MANUALCURRENT] = Answer(SomePrice, FALSE)

-----------------------------------------------------------------------------
(* Properties of the range of the penalty counters *)

\* C37: whatever the order of the note_failure_or_penalize and is_penalized
\* calls, the failure count of every oracle stays between 0 and the
\* threshold 5, and its last-penalized timestamp never decreases and never
\* lies after the current time.
C37_CounterBound ==
    [][\A o \in PenalizablePriceOracleMixin :
          /\ penalty_info'[o].query_failures_count >= 0
          /\ penalty_info'[o].query_failures_count <= ORACLE_PENALTY_THRESHOLD_COUNT
          /\ penalty_info'[o].last_penalized_ts >= penalty_info[o].last_penalized_ts
          /\ penalty_info'[o].last_penalized_ts <= now']_vars

C37_Witness ==
    /\ last.op = "note_failure_or_penalize"
    /\ last.oracle = COINGECKO
    /\ last.before.query_failures_count = 0
    /\ last.before.last_penalized_ts >= StartTime
    /\ last.before.last_penalized_ts < now
    /\ penalty_info[COINGECKO] = PenaltyInfo(last.before.last_penalized_ts, 1)

-----------------------------------------------------------------------------
(* Properties of assets without oracles *)

\* assets known to the database that are not assets with oracles
WithoutOracles == {a \in Assets : ~is_asset_with_oracles(a) /\ AssetKind(a) # "unknown"}

\* the outcome of the loop for (a, t) in state S is that of a loop over the
\* manual oracle alone, and the entry for the pair is written unless the
\* manual oracle's RecursionError leaves a nested call
ManualOnly(S, a, t, cf, so, mm) ==
    LET e == query_oracle_instances(S, a, t, cf, so, mm)
        alone == LoopFrom(Zip(<<MANUALCURRENT>>, <<OracleInstance(MANUALCURRENT)>>), 1,
                          LoopStart(S.pen), S.now, S.prov, cf)
    IN  /\ e.queried \in {<<>>, <<MANUALCURRENT>>}
        /\ e.queried = alone.queried
        /\ e.pen = S.pen
        /\ IF alone.stop = "raise"
             THEN /\ cf
                  /\ S.prov[MANUALCURRENT] = RecursionError
                  /\ e.res = Raised("RecursionError")
                  /\ e.cache = S.cache
             ELSE /\ e.res = Returned(alone.price, alone.oracle_queried, alone.used_main_currency)
                  /\ e.res.oracle \in {MANUALCURRENT, BLOCKCHAIN}
                  /\ e.cache = Store(S.cache, <<a, t>>,
                                     CachedPriceEntry(e.res.price, S.now, e.res.oracle,
                                                      e.res.used_main_currency))

\* a call for an asset without oracles went through the loop and returned
ManualLoopCall ==
    /\ last.op \in {"find_price", "find_price_add_oracle"}
    /\ last.from \in WithoutOracles
    /\ last.from # last.to
    /\ last.to # A_USD
    /\ ~last.hit
    /\ last.res.outcome = "return"

\* C38: once an order is set, the loop for an asset without oracles queries
\* the manual current-price oracle and no other, under every configured order
\* and both values of skip_onchain, and it writes the entry for the pair with
\* the outcome and the current time (only the manual oracle's RecursionError,
\* passed on to a nested caller, ends it before the write); every such call
\* made queried at most the manual oracle and left that entry in the cache.
C38_ManualOnlyForAssetsWithoutOracles ==
    /\ order_set =>
          \A a \in WithoutOracles, cf \in BOOLEAN, so \in BOOLEAN, mm \in BOOLEAN :
              ManualOnly(Engine, a, "EUR", cf, so, mm)
    /\ ManualLoopCall =>
          /\ last.queried \in {<<>>, <<MANUALCURRENT>>}
          /\ LastKey \in DOMAIN cached_current_price
          /\ cached_current_price[LastKey].time = now
          /\ cached_current_price[LastKey].price = last.res.price
          /\ cached_current_price[LastKey].oracle \in {MANUALCURRENT, BLOCKCHAIN}
          /\ last.op = "find_price_add_oracle" =>
                last.res.oracle = cached_current_price[LastKey].oracle

C38_Witness ==
    /\ ManualLoopCall
    /\ oracles = <<UNISWAPV2, COINGECKO>>
    /\ oracles_not_onchain = <<COINGECKO>>
    /\ provider[COINGECKO] = Answer(SomePrice, FALSE)
    /\ provider[UNISWAPV2] = Answer(SomePrice, FALSE)
    /\ provider[MANUALCURRENT] = Answer(SomePrice, FALSE)
    /\ last.op = "find_price_add_oracle"
    /\ last.queried = <<MANUALCURRENT>>
    /\ last.res.oracle = MANUALCURRENT
    /\ now > StartTime
    /\ cached_current_price[LastKey].time = now

====
